---------------------------- MODULE Spec2Model ----------------------------
(***************************************************************************)
(* A model of the staggered-grid core of LaMEM (src/src/fdstag/fdstag.c    *)
(* and the JacRes routines of src/unnamed/part_001) and of the log file    *)
(* comparison of its test suite (src/test/test_utils.jl).                  *)
(*                                                                         *)
(* The module holds these state machines over one set of variables:        *)
(*   SpecAxis     one coordinate axis: MeshSeg1DCreate, Discret1DCreate    *)
(*                and Discret1DGenCoord on every process of a partitioned  *)
(*                run and on the single process of a sequential run;       *)
(*   SpecSeg      MeshSeg1DGenCoord called on the segments of one table;   *)
(*   SpecGrid     FDSTAGCreate, DOFIndexCreate and DOFIndexCompute on a    *)
(*                Px x Py x Pz process grid;                               *)
(*   SpecCopy     JacResCopySol, JacResCopyRes, JacResCopyMomentumRes and  *)
(*                JacResCopyContinuityRes on one process;                  *)
(*   SpecCourant  JacResGetCourantStep over a sequence of time steps;      *)
(*   SpecStrain   JacResGetEffStrainRate and JacResGetVorticity on the     *)
(*                velocity fields of one process;                          *)
(*   SpecResidual JacResGetEffStrainRate and JacResGetResidual, with a     *)
(*                constitutive routine that can fail;                      *)
(*   SpecPhases   the loops and ghost exchanges of one residual            *)
(*                evaluation on two processes;                             *)
(*   SpecCheckMG  Discret1DCheckMG on one axis of one process;             *)
(*   SpecAspect   FDSTAGView and FDSTAGGetAspectRatio on a Px x 1 x Pz     *)
(*                process grid;                                            *)
(*   SpecLogs     compare_logfiles on two log files;                       *)
(*   SpecStretch  Discret1DStretch on the processes of one axis;           *)
(*   SpecIter     the calls of one nonlinear iteration: JacResCopySol,     *)
(*                JacResGetEffStrainRate, JacResGetResidual, with          *)
(*                JacResGetVorticity between any two of them;              *)
(*   SpecTpc      JacResCopySol on one process of a process grid;          *)
(*   SpecAsm      JacResGetResidual on three processes, a constitutive     *)
(*                call failing on some of them (SpecAsmFair: every         *)
(*                process keeps running);                                  *)
(*   SpecPart     the stores of JacResGetResidual into the faces of a      *)
(*                partitioned grid and their assembly.                     *)
(* A state machine leaves the variables of the others at their idle value. *)
(*                                                                         *)
(* PetscScalar values are exact rationals extended with the IEEE-754       *)
(* special values (NaN and the two infinities): a division by zero yields  *)
(* what the hardware yields.  Rounding is modelled in the strain rate and  *)
(* vorticity operators of SpecStrain, which compute in binary floating     *)
(* point of FloatBits significant bits, round to nearest, ties to even;    *)
(* everywhere else the arithmetic is exact.                                *)
(***************************************************************************)
EXTENDS Integers, Sequences, FiniteSets, TLC

VARIABLES
    usr,      \* axis input: beg, end, tncels, msi (MeshSegInp), nnodProc
    ms,       \* the MeshSeg1D of every process (made: MeshSeg1DCreate has run)
    ds,       \* Discret1D of every process of both runs, with its position
    seg,      \* a MeshSeg1D and the nodes MeshSeg1DGenCoord generated from it
    grid,     \* grid input: Nx, Ny, Nz, the process grid Px, Py, Pz, idxmod
    fs,       \* the FDSTAG of every process of the grid, with its position
    jr,       \* the JacRes vectors and constraint lists of one process
    ts        \* the time stepping data and the velocities of the Courant step

axisVars == <<usr, ms, ds>>

segVars == <<seg>>

gridVars == <<grid, fs>>

copyVars == <<jr>>

courantVars == <<ts>>

vars == <<usr, ms, ds, seg, grid, fs, jr, ts>>

AxisIdle == usr = "idle" /\ ms = "idle" /\ ds = "idle"

SegIdle == seg = "idle"

GridIdle == grid = "idle" /\ fs = "idle"

CopyIdle == jr = "idle"

CourantIdle == ts = "idle"

---------------------------------------------------------------------------
(* Bounds of the model *)

\* largest number of cells of the axis
MaxCells == 4
\* largest number of segments of the segment table
MaxSegs == 2
\* largest number of processes along the axis
MaxProc == 2

---------------------------------------------------------------------------
(* PetscScalar arithmetic *)

Abs(x) == IF x < 0 THEN -x ELSE x

Sign(x) == IF x < 0 THEN -1 ELSE IF x > 0 THEN 1 ELSE 0

RECURSIVE GCD(_, _)
GCD(a, b) == IF b = 0 THEN a ELSE GCD(b, a % b)

\* the rational n/d (d > 0) in lowest terms
Rat(n, d) ==
    LET g == GCD(Abs(n), d)
    IN  [n |-> n \div g, d |-> d \div g]

FInt(k) == [n |-> k, d |-> 1]

NaN == [n |-> 0, d |-> 0]

Inf(s) == [n |-> s, d |-> 0]

IsNaN(a) == a.d = 0 /\ a.n = 0

IsInf(a) == a.d = 0 /\ a.n # 0

IsFinite(a) == a.d > 0

FNeg(a) == [n |-> -a.n, d |-> a.d]

FAdd(a, b) ==
    IF IsNaN(a) \/ IsNaN(b) THEN NaN
    ELSE IF IsInf(a) /\ IsInf(b) THEN (IF a.n = b.n THEN a ELSE NaN)
    ELSE IF IsInf(a) THEN a
    ELSE IF IsInf(b) THEN b
    ELSE Rat(a.n * b.d + b.n * a.d, a.d * b.d)

FSub(a, b) == FAdd(a, FNeg(b))

FMul(a, b) ==
    IF IsNaN(a) \/ IsNaN(b) THEN NaN
    ELSE IF IsInf(a) \/ IsInf(b)
         THEN (IF a.n = 0 \/ b.n = 0 THEN NaN ELSE Inf(Sign(a.n) * Sign(b.n)))
    ELSE Rat(a.n * b.n, a.d * b.d)

FDiv(a, b) ==
    IF IsNaN(a) \/ IsNaN(b) THEN NaN
    ELSE IF IsInf(a)
         THEN (IF IsInf(b) THEN NaN
               ELSE Inf(a.n * (IF b.n < 0 THEN -1 ELSE 1)))
    ELSE IF IsInf(b) THEN FInt(0)
    ELSE IF b.n = 0
         THEN (IF a.n = 0 THEN NaN ELSE Inf(Sign(a.n)))
    ELSE Rat(a.n * b.d * Sign(b.n), a.d * Abs(b.n))

\* the C comparisons == and < on doubles: false as soon as an operand is NaN
FEq(a, b) == ~IsNaN(a) /\ ~IsNaN(b) /\ a = b

FLt(a, b) ==
    /\ ~IsNaN(a)
    /\ ~IsNaN(b)
    /\ a # b
    /\ IF IsInf(a) THEN a.n < 0
       ELSE IF IsInf(b) THEN b.n > 0
       ELSE a.n * b.d < b.n * a.d

FGt(a, b) == FLt(b, a)

FAbs(a) == [n |-> Abs(a.n), d |-> a.d]

\* the tolerance rtol = 1e-8 of Discret1DGetMinMaxCellSize, as 1/RtolInv
RtolInv == 100000000

\* a < rtol*h on doubles, for a >= 0; the quotient keeps the integers small
FLtScaled(a, h) ==
    /\ ~IsNaN(a)
    /\ ~IsNaN(h)
    /\ IF IsInf(a) THEN FALSE
       ELSE IF IsInf(h) THEN h.n > 0
       ELSE IF a.n = 0 THEN h.n > 0
       ELSE h.n > 0 /\ RtolInv <= (h.n * a.d - 1) \div (a.n * h.d)

---------------------------------------------------------------------------
(* MeshSeg1D *)

\* MeshSeg1DCreate: the segment table of an axis from the input segments
MeshSeg1DCreate(beg, end, tncels, msi) ==
    LET nsegs == IF msi.nsegs # 0 THEN msi.nsegs ELSE 1
        \* istart accumulated over the input cell counts (lines 40-45)
        RECURSIVE Acc(_)
        Acc(i) == IF i = 0 THEN 0 ELSE Acc(i - 1) + msi.ncells[i - 1]
    IN  [nsegs  |-> nsegs,
         istart |-> [i \in 0..nsegs |->
                        IF i = 0 THEN 0
                        ELSE IF i = nsegs THEN tncels
                        ELSE Acc(i)],
         xstart |-> [i \in 0..nsegs |->
                        IF i = 0 THEN beg
                        ELSE IF i = nsegs THEN end
                        ELSE msi.delims[i - 1]],
         biases |-> [i \in 0..(nsegs - 1) |->
                        IF msi.nsegs # 0 THEN msi.biases[i] ELSE FInt(1)]]

\* sum of the integers 0 .. k-1, as the loop of line 149 accumulates it
RECURSIVE SumBelow(_)
SumBelow(k) == IF k <= 0 THEN 0 ELSE SumBelow(k - 1) + (k - 1)

\* average cell size of a segment of M cells (line 127)
AvgSz(xstart, xclose, M) == FDiv(FSub(xclose, xstart), FInt(M))

\* size of the first cell (line 142)
BegSz(avgSz, bias) == FDiv(FMul(FInt(2), avgSz), FAdd(FInt(1), bias))

\* cell size increment (lines 143-146)
CellIncr(begSz, bias, M) ==
    FDiv(FSub(FMul(bias, begSz), begSz), FInt(M - 1))

\* the store of line 154 for node k, sum being 0 + 1 + ... + (k-1)
BiasedCoord(xstart, k, begSz, dx, sum) ==
    FAdd(FAdd(xstart, FMul(FInt(k), begSz)), FMul(FInt(sum), dx))

BiasedNode(xstart, k, begSz, bias, M) ==
    BiasedCoord(xstart, k, begSz, CellIncr(begSz, bias, M), SumBelow(k))

\* the store of line 135 for node k
UniformNode(xstart, k, avgSz) == FAdd(xstart, FMul(FInt(k), avgSz))

\* the value the loops of lines 133-136 and 152-156 store for node k of a
\* segment of M cells from xstart to xclose
NodeCoord(xstart, xclose, bias, M, k) ==
    IF FEq(bias, FInt(1))
    THEN UniformNode(xstart, k, AvgSz(xstart, xclose, M))
    ELSE BiasedNode(xstart, k, BegSz(AvgSz(xstart, xclose, M), bias), bias, M)

SegNodeCoord(m, iseg, k) ==
    NodeCoord(m.xstart[iseg], m.xstart[iseg + 1], m.biases[iseg],
              m.istart[iseg + 1] - m.istart[iseg], k)

\* total number of nodes of a segment, both ends included (line 114)
SegNodes(m, iseg) == m.istart[iseg + 1] - m.istart[iseg] + 1

\* MeshSeg1DGenCoord: the stores into crd, as a function from the offset
\* within crd to the value stored.  The override of line 160 stores at
\* offset nl-1, which is offset -1 when nl = 0.
MeshSeg1DGenCoord(m, iseg, nl, istart) ==
    [o \in (0..(nl - 1)) \cup
           (IF istart + nl = SegNodes(m, iseg) THEN {nl - 1} ELSE {}) |->
        IF istart + nl = SegNodes(m, iseg) /\ o = nl - 1
        THEN m.xstart[iseg + 1]
        ELSE SegNodeCoord(m, iseg, istart + o)]

MeshSeg1DGetUniStep(m) ==
    FDiv(FSub(m.xstart[m.nsegs], m.xstart[0]), FInt(m.istart[m.nsegs]))

---------------------------------------------------------------------------
(* Discret1D *)

\* global rank of the process at position (i, j, k) of an m x n x p process
\* grid, -1 outside the grid
getGlobalRank(i, j, k, m, n, p) ==
    IF i < 0 \/ i >= m \/ j < 0 \/ j >= n \/ k < 0 \/ k >= p THEN -1
    ELSE i + j * m + k * m * n

\* size of the cell with global index i on a process whose first cell is s
SIZE_CELL(i, s, d) == FSub(d.ncoor[i - s + 1], d.ncoor[i - s])

RECURSIVE SumTo(_, _)
\* f[0] + ... + f[k-1]
SumTo(f, k) == IF k <= 0 THEN 0 ELSE SumTo(f, k - 1) + f[k - 1]

\* a Discret1DCreate that takes the last-process count on every process
LocalCells_NoNext(nnod, grnext) == nnod - 1

\* the number of local cells (lines 219-221)
LocalCells(nnod, grnext) == IF grnext # -1 THEN nnod ELSE nnod - 1

\* Discret1DCreate: the decomposition data of one process of an axis.
\* The buffers come zeroed from makeScalArray; ncoor is indexed as in the
\* code, from -1, and ccoor likewise.
Discret1DCreate(nproc, rank, nnodProc, color, grprev, grnext) ==
    LET cnt   == SumTo(nnodProc, nproc)
        nnods == nnodProc[rank]
        ncels == LocalCells(nnodProc[rank], grnext)
        bufsz == IF grnext # -1 THEN nnods + 3 ELSE nnods + 2
    IN  [nproc  |-> nproc,
         rank   |-> rank,
         starts |-> [i \in 0..nproc |->
                        IF i = nproc THEN cnt - 1 ELSE SumTo(nnodProc, i)],
         pstart |-> SumTo(nnodProc, rank),
         tnods  |-> cnt,
         tcels  |-> cnt - 1,
         nnods  |-> nnods,
         ncels  |-> ncels,
         bufsz  |-> bufsz,
         ncoor  |-> [i \in -1..(bufsz - 2) |-> FInt(0)],
         ccoor  |-> [i \in -1..ncels |-> FInt(0)],
         color  |-> color,
         grprev |-> grprev,
         grnext |-> grnext,
         h_uni  |-> FInt(0),
         h_min  |-> FInt(0),
         h_max  |-> FInt(0),
         lminsz |-> FInt(0),
         lmaxsz |-> FInt(0),
         calls  |-> {},
         oob    |-> {}]

\* the stores w of one call of MeshSeg1DGenCoord, made at crd
StoreAt(buf, crd, w) ==
    [x \in DOMAIN buf |-> IF (x - crd) \in DOMAIN w THEN w[x - crd] ELSE buf[x]]

\* the ncoor indices of those stores that lie outside the buffer
StoresOutside(buf, crd, w) == {crd + o : o \in DOMAIN w} \ DOMAIN buf

\* number of nodes of segment i from pstart on (line 286)
NodesWithin(m, i, pstart) == m.istart[i + 1] - pstart + 1

\* clamped to the nodes that remain to be generated (line 292)
Clamp(nl, n) == IF nl > n THEN n ELSE nl

\* The loop of lines 283-304.  buf is ncoor, crd the ncoor index the pointer
\* crd stands at, calls the (segment, nl, istart) of every call of
\* MeshSeg1DGenCoord, oob the ncoor indices stored to outside the buffer.
RECURSIVE GenCoordLoop(_, _, _, _, _, _, _, _)
RECURSIVE GenCoordCall(_, _, _, _, _, _, _, _, _)
GenCoordLoop(m, i, pstart, crd, n, buf, calls, oob) ==
    IF n = 0 \/ i >= m.nsegs
    THEN [ncoor |-> buf, calls |-> calls, oob |-> oob, left |-> n]
    ELSE IF NodesWithin(m, i, pstart) < 0
    THEN GenCoordLoop(m, i + 1, pstart, crd, n, buf, calls, oob)
    ELSE GenCoordCall(m, i, pstart, crd, n, buf, calls, oob,
                      Clamp(NodesWithin(m, i, pstart), n))

\* lines 295-303: the call for segment i and the update of the counters
GenCoordCall(m, i, pstart, crd, n, buf, calls, oob, nl) ==
    GenCoordLoop(m, i + 1, pstart + nl, crd + nl, n - nl,
                 StoreAt(buf, crd,
                         MeshSeg1DGenCoord(m, i, nl, pstart - m.istart[i])),
                 calls \cup {[seg |-> i, nl |-> nl,
                              istart |-> pstart - m.istart[i],
                              first |-> pstart]},
                 oob \cup StoresOutside(buf, crd,
                         MeshSeg1DGenCoord(m, i, nl, pstart - m.istart[i])))

\* local minimum and maximum cell size (lines 347-356)
RECURSIVE LocalMinMax(_, _, _, _)
LocalMinMax(d, i, lo, hi) ==
    IF i >= d.ncels THEN [lminsz |-> lo, lmaxsz |-> hi]
    ELSE LocalMinMax(d, i + 1,
                     IF FLt(SIZE_CELL(i, 0, d), lo) THEN SIZE_CELL(i, 0, d) ELSE lo,
                     IF FGt(SIZE_CELL(i, 0, d), hi) THEN SIZE_CELL(i, 0, d) ELSE hi)

\* boundary ghost coordinates (lines 307-320)
LeftGhost(d, buf) ==
    IF d.grprev # -1 THEN buf
    ELSE [buf EXCEPT ![-1] = FSub(buf[0], FSub(buf[1], buf[0]))]

RightGhost(d, buf) ==
    IF d.grnext # -1 THEN buf
    ELSE [buf EXCEPT ![d.nnods] =
            FAdd(buf[d.nnods - 1], FSub(buf[d.nnods - 1], buf[d.nnods - 2]))]

\* coordinates of the cell centers including ghosts (lines 323-324)
CellCenters(d) ==
    [d EXCEPT !.ccoor = [i \in -1..d.ncels |->
                            FDiv(FAdd(d.ncoor[i], d.ncoor[i + 1]), FInt(2))]]

WithLocalMinMax(d, mm) == [d EXCEPT !.lminsz = mm.lminsz, !.lmaxsz = mm.lmaxsz]

LocalSizes(d) ==
    WithLocalMinMax(d, LocalMinMax(d, 1, SIZE_CELL(0, 0, d), SIZE_CELL(0, 0, d)))

AfterLoop(d, lp) ==
    LocalSizes(CellCenters(
        [d EXCEPT !.ncoor = RightGhost(d, LeftGhost(d, lp.ncoor)),
                  !.calls = lp.calls,
                  !.oob   = lp.oob]))

\* Discret1DGenCoord up to the reduction of Discret1DGetMinMaxCellSize
Discret1DGenCoord(d, m) ==
    AfterLoop(d,
        GenCoordLoop(m, 0,
                     IF d.grprev # -1 THEN d.pstart - 1 ELSE d.pstart,
                     IF d.grprev # -1 THEN -1 ELSE 0,
                     d.nnods + (IF d.grprev # -1 THEN 1 ELSE 0)
                             + (IF d.grnext # -1 THEN 2 ELSE 0),
                     d.ncoor, {}, {}))

---------------------------------------------------------------------------
(* The axis state machine: inputs *)

\* the values of the bias of a segment
Biases == {FInt(1), FInt(2)}

\* the widths of a segment, and the left ends of the axis
Widths == {2}

Begs == {-1}

\* the splits of t cells over k segments, each segment with a cell
CellSplits(k, t) == {f \in [0..(k - 1) -> 1..t] : SumTo(f, k) = t}

\* the node counts per process: P processes, each with a node, the last one
\* with two (DMDA gives every process a cell, line 809 adds the last node)
Partitions(tnods) ==
    UNION {{f \in [0..(P - 1) -> 1..tnods] :
                SumTo(f, P) = tnods /\ f[P - 1] >= 2} : P \in 1..MaxProc}

\* the input decks of one axis with k explicit segments, or none (k = 0),
\* and t cells: segment i is Widths wide
MeshInputsOf(k, t) ==
    {[beg    |-> beg,
      end    |-> beg + SumTo(w, IF k = 0 THEN 1 ELSE k),
      tncels |-> t,
      msi    |-> [nsegs  |-> k,
                  ncells |-> nc,
                  delims |-> [i \in 0..(k - 2) |-> FInt(beg + SumTo(w, i + 1))],
                  biases |-> b]] :
        beg \in Begs,
        nc \in (IF k = 0 THEN {<<>>} ELSE CellSplits(k, t)),
        w \in [0..((IF k = 0 THEN 1 ELSE k) - 1) -> Widths],
        b \in [0..(k - 1) -> Biases]}

MeshInputs ==
    UNION {UNION {MeshInputsOf(k, t) : t \in (IF k = 0 THEN 1 ELSE k)..MaxCells} :
           k \in 0..MaxSegs}

\* an input deck and the node counts of the processes of the axis
AxisInputs ==
    UNION {{mi @@ [nnodProc |-> part] : part \in Partitions(mi.tncels + 1)} :
           mi \in MeshInputs}

\* the processes: the single one of the sequential run, those of the
\* partitioned run
AxisProcs(u) ==
    {<<"seq", 0>>} \cup {<<"par", r>> : r \in DOMAIN u.nnodProc}

RunNodes(u, run) ==
    IF run = "seq" THEN [i \in {0} |-> u.tncels + 1] ELSE u.nnodProc

RunProcs(u, run) == {p \in AxisProcs(u) : p[1] = run}

NoDiscret == [pc |-> "start"]

InitAxis ==
    /\ usr \in AxisInputs
    /\ ms = [p \in AxisProcs(usr) |-> [made |-> FALSE]]
    /\ ds = [p \in AxisProcs(usr) |-> NoDiscret]
    /\ SegIdle /\ GridIdle /\ CopyIdle /\ CourantIdle

---------------------------------------------------------------------------
(* The axis state machine: actions *)

\* FDSTAGCreate, lines 868-870: Discret1DCreate on process p, an axis of a
\* P x 1 x 1 process grid
CreateDiscret(p) ==
    /\ ds[p].pc = "start"
    /\ \E P \in {Cardinality(DOMAIN RunNodes(usr, p[1]))} :
          ds' = [ds EXCEPT ![p] =
                    [pc |-> "created"] @@
                    Discret1DCreate(P, p[2], RunNodes(usr, p[1]), 0,
                                    getGlobalRank(p[2] - 1, 0, 0, P, 1, 1),
                                    getGlobalRank(p[2] + 1, 0, 0, P, 1, 1))]
    /\ UNCHANGED <<usr, ms, segVars, gridVars, copyVars, courantVars>>

\* FDSTAGGenCoord on process p: MeshSeg1DCreate, then Discret1DGenCoord up
\* to the collective of Discret1DGetMinMaxCellSize.  A store outside the
\* node buffer is undefined behaviour: the process goes on with its heap
\* damaged, or is aborted.
GenCoord(p) ==
    /\ ds[p].pc = "created"
    /\ \E m \in {MeshSeg1DCreate(FInt(usr.beg), FInt(usr.end),
                                 usr.tncels, usr.msi)} :
       \E d \in {Discret1DGenCoord(ds[p], m)} :
       \E out \in (IF d.oob = {} THEN {"reduce"} ELSE {"reduce", "aborted"}) :
          /\ ms' = [ms EXCEPT ![p] = [made |-> TRUE] @@ m]
          /\ ds' = [ds EXCEPT ![p] = [d EXCEPT !.pc = out]]
    /\ UNCHANGED <<usr, segVars, gridVars, copyVars, courantVars>>

\* the result of MPI_Allreduce with MPI_MIN and with MPI_MAX
MinOf(S) == CHOOSE x \in S : \A y \in S : ~FLt(y, x)

MaxOf(S) == CHOOSE x \in S : \A y \in S : ~FGt(y, x)

\* lines 375-389: detect a uniform mesh and store the result
StoreSizes(d, gminsz, gmaxsz, h) ==
    IF FLtScaled(FAbs(FSub(gmaxsz, gminsz)), h)
    THEN [d EXCEPT !.pc = "done", !.h_uni = h, !.h_min = h, !.h_max = h]
    ELSE [d EXCEPT !.pc = "done", !.h_uni = FInt(-1),
                   !.h_min = gminsz, !.h_max = gmaxsz]

\* Discret1DGetMinMaxCellSize, lines 358-389, on process p: the sequential
\* case, or the two MPI_Allreduce over the processes of the axis, which
\* return once every process of the run has contributed
MinMaxCellSize(p) ==
    /\ ds[p].pc = "reduce"
    /\ \A q \in RunProcs(usr, p[1]) : ds[q].pc \in {"reduce", "done"}
    /\ ds' = [ds EXCEPT ![p] =
                IF ds[p].nproc = 1
                THEN StoreSizes(ds[p], ds[p].lminsz, ds[p].lmaxsz,
                                MeshSeg1DGetUniStep(ms[p]))
                ELSE StoreSizes(ds[p],
                                MinOf({ds[q].lminsz : q \in RunProcs(usr, p[1])}),
                                MaxOf({ds[q].lmaxsz : q \in RunProcs(usr, p[1])}),
                                MeshSeg1DGetUniStep(ms[p]))]
    /\ UNCHANGED <<usr, ms, segVars, gridVars, copyVars, courantVars>>

NextAxis ==
    \/ \E p \in AxisProcs(usr) : CreateDiscret(p)
    \/ \E p \in AxisProcs(usr) : GenCoord(p)
    \/ \E p \in AxisProcs(usr) : MinMaxCellSize(p)

SpecAxis == InitAxis /\ [][NextAxis]_vars

---------------------------------------------------------------------------
(* The segment state machine: MeshSeg1DGenCoord called on its own *)

InitSeg ==
    /\ seg \in {[m   |-> MeshSeg1DCreate(FInt(mi.beg), FInt(mi.end),
                                         mi.tncels, mi.msi),
                 crd |-> {}] : mi \in MeshInputs}
    /\ AxisIdle /\ GridIdle /\ CopyIdle /\ CourantIdle

\* the nodes a call stored, each with its segment and its index in it
Generated(iseg, istart, w) ==
    {[iseg |-> iseg, k |-> istart + o, x |-> w[o]] : o \in DOMAIN w}

\* one call MeshSeg1DGenCoord(ms, iseg, nl, istart, crd) for nl >= 1 nodes
\* of the segment, from node istart on
SegGenCoord(iseg, nl, istart) ==
    /\ istart + nl <= SegNodes(seg.m, iseg)
    /\ seg' = [seg EXCEPT !.crd =
                 {g \in @ : g.iseg # iseg \/ g.k < istart \/ g.k >= istart + nl}
                 \cup Generated(iseg, istart,
                                MeshSeg1DGenCoord(seg.m, iseg, nl, istart))]
    /\ UNCHANGED <<axisVars, gridVars, copyVars, courantVars>>

NextSeg ==
    \E iseg \in 0..(seg.m.nsegs - 1) :
        \E istart \in 0..MaxCells, nl \in 1..(MaxCells + 1) :
            SegGenCoord(iseg, nl, istart)

SpecSeg == InitSeg /\ [][NextSeg]_vars

---------------------------------------------------------------------------
(* Claims on the axis: C1, C2, C3 *)

SeqProc == <<"seq", 0>>

\* process p has generated its coordinates
Generates(p) == ds[p].pc \in {"reduce", "done"}

\* the local node indices of process p that it owns or that are interior
\* ghosts (nodes owned by a neighbour)
OwnedAndInteriorGhosts(d) ==
    (0..(d.nnods - 1))
    \cup (IF d.grprev # -1 THEN {-1} ELSE {})
    \cup (IF d.grnext # -1 THEN {d.nnods, d.nnods + 1} ELSE {})

\* C1: in every state in which the single process of the sequential run and
\* a process p of the partitioned run have generated their coordinates, each
\* node that p owns or holds as an interior ghost has the coordinate the
\* single process has for the same global index, and the single process has
\* beg at global node 0 and end at global node tnods-1.
C1_PartitionInvariant ==
    \A p \in RunProcs(usr, "par") :
        (Generates(p) /\ Generates(SeqProc)) =>
            /\ \A i \in OwnedAndInteriorGhosts(ds[p]) :
                  FEq(ds[p].ncoor[i], ds[SeqProc].ncoor[ds[p].pstart + i])
            /\ FEq(ds[SeqProc].ncoor[0], FInt(usr.beg))
            /\ FEq(ds[SeqProc].ncoor[ds[SeqProc].tnods - 1], FInt(usr.end))

\* C2: whenever MeshSeg1DGenCoord has generated the last node of segment i
\* and node 0 of segment i+1, the two coordinates are equal and equal
\* xstart[i+1].
C2_SegmentContinuity ==
    \A a \in seg.crd : \A b \in seg.crd :
        (b.iseg = a.iseg + 1 /\ a.k = SegNodes(seg.m, a.iseg) - 1 /\ b.k = 0) =>
            FEq(a.x, b.x) /\ FEq(b.x, seg.m.xstart[b.iseg])

\* every process of the run has been through Discret1DCreate
AllCreated(run) == \A p \in RunProcs(usr, run) : ds[p].pc # "start"

NProcs(run) == Cardinality(DOMAIN RunNodes(usr, run))

\* C3: once Discret1DCreate has run on every process of an axis, the local
\* cell counts add up to tcels = tnods-1, the local node counts to tnods (the
\* number of nodes of the axis), and pstart of a process is the number of
\* nodes of the processes of lower rank.
C3_Conservation ==
    \A run \in {"seq", "par"} :
        AllCreated(run) =>
            \A r \in 0..(NProcs(run) - 1) :
                /\ ds[<<run, r>>].tnods = usr.tncels + 1
                /\ ds[<<run, r>>].tcels = ds[<<run, r>>].tnods - 1
                /\ SumTo([q \in 0..(NProcs(run) - 1) |-> ds[<<run, q>>].ncels],
                         NProcs(run)) = ds[<<run, r>>].tcels
                /\ SumTo([q \in 0..(NProcs(run) - 1) |-> ds[<<run, q>>].nnods],
                         NProcs(run)) = ds[<<run, r>>].tnods
                /\ ds[<<run, r>>].pstart =
                       SumTo([q \in 0..(NProcs(run) - 1) |-> ds[<<run, q>>].nnods], r)

\* C3 witness: an axis of two or more processes, all through Discret1DCreate
C3_Witness == NProcs("par") >= 2 /\ AllCreated("par")

---------------------------------------------------------------------------
(* FDSTAG and DOFIndex on a Px x Py x Pz process grid *)

\* largest number of cells of the grid
MaxVolume == 4
\* largest number of processes of the grid
MaxRanks == 4

\* the global ranks of process grid G
Ranks(G) == 0..(G.Px * G.Py * G.Pz - 1)

\* DMDAGetProcessorRank: the position of global rank g in the process grid
RankX(G, g) == g % G.Px

RankY(G, g) == (g \div G.Px) % G.Py

RankZ(G, g) == g \div (G.Px * G.Py)

\* DMDAGetOwnershipRanges of DA_CEN, which distributes the M cells of an axis
\* over m processes itself
DMDAOwnership(M, m) ==
    [r \in 0..(m - 1) |-> (M \div m) + (IF (M % m) > r THEN 1 ELSE 0)]

\* lines 804-809: the node counts, one more than the cell count on the last
\* process
NodeCounts(M, m) ==
    [r \in 0..(m - 1) |->
        DMDAOwnership(M, m)[r] + (IF r = m - 1 THEN 1 ELSE 0)]

\* l[m-1]--, around the creation of a DMDA staggered along the axis
Decr(l, m) == [l EXCEPT ![m - 1] = @ - 1]

GridLx(G) == NodeCounts(G.Nx - 1, G.Px)

GridLy(G) == NodeCounts(G.Ny - 1, G.Py)

GridLz(G) == NodeCounts(G.Nz - 1, G.Pz)

\* a distributed array with the given points per process along x, y and z
DMDACreate3d(lx, ly, lz) == [lx |-> lx, ly |-> ly, lz |-> lz]

DA_CEN(G) ==
    DMDACreate3d(DMDAOwnership(G.Nx - 1, G.Px), DMDAOwnership(G.Ny - 1, G.Py),
                 DMDAOwnership(G.Nz - 1, G.Pz))

DA_X(G) == DMDACreate3d(GridLx(G), Decr(GridLy(G), G.Py), Decr(GridLz(G), G.Pz))

DA_Y(G) == DMDACreate3d(Decr(GridLx(G), G.Px), GridLy(G), Decr(GridLz(G), G.Pz))

DA_Z(G) == DMDACreate3d(Decr(GridLx(G), G.Px), Decr(GridLy(G), G.Py), GridLz(G))

\* DMDAGetCorners on global rank g: first owned index and owned count per axis
DMDAGetCorners(da, G, g) ==
    [sx |-> SumTo(da.lx, RankX(G, g)), nx |-> da.lx[RankX(G, g)],
     sy |-> SumTo(da.ly, RankY(G, g)), ny |-> da.ly[RankY(G, g)],
     sz |-> SumTo(da.lz, RankZ(G, g)), nz |-> da.lz[RankZ(G, g)]]

\* nx*ny*nz
CornerCount(c) == c.nx * c.ny * c.nz

\* the points a process owns, and the points of its ghosted local vector
\* (box stencil of width 1, ghost layer kept at the domain boundary too)
Owned(c) ==
    {<<i, j, k>> : i \in c.sx..(c.sx + c.nx - 1),
                   j \in c.sy..(c.sy + c.ny - 1),
                   k \in c.sz..(c.sz + c.nz - 1)}

Ghosted(c) ==
    {<<i, j, k>> : i \in (c.sx - 1)..(c.sx + c.nx),
                   j \in (c.sy - 1)..(c.sy + c.ny),
                   k \in (c.sz - 1)..(c.sz + c.nz)}

\* the points of the distributed array, all processes together
InDomain(da, G, pt) ==
    /\ pt[1] \in 0..(SumTo(da.lx, G.Px) - 1)
    /\ pt[2] \in 0..(SumTo(da.ly, G.Py) - 1)
    /\ pt[3] \in 0..(SumTo(da.lz, G.Pz) - 1)

\* the process that owns a point of the domain
Owner(da, G, pt) == CHOOSE q \in Ranks(G) : pt \in Owned(DMDAGetCorners(da, G, q))

\* the position of point pt in the loop over the owned points: k outermost,
\* i innermost
START_STD_LOOP(c, pt) ==
    (pt[1] - c.sx) + c.nx * ((pt[2] - c.sy) + c.ny * (pt[3] - c.sz))

\* a point count with a node factor too many on the XY edges
PointCounts_EdgeAsCorner(nnx, nny, nnz, ncx, ncy, ncz) ==
    [nCells |-> ncx * ncy * ncz, nCorns |-> nnx * nny * nnz,
     nXYEdg |-> nnx * nny * nnz, nXZEdg |-> nnx * ncy * nnz,
     nYZEdg |-> ncx * nny * nnz, nXFace |-> nnx * ncy * ncz,
     nYFace |-> ncx * nny * ncz, nZFace |-> ncx * ncy * nnz]

\* lines 886-897: the local number of grid points of every point set
PointCounts(nnx, nny, nnz, ncx, ncy, ncz) ==
    [nCells |-> ncx * ncy * ncz, nCorns |-> nnx * nny * nnz,
     nXYEdg |-> nnx * nny * ncz, nXZEdg |-> nnx * ncy * nnz,
     nYZEdg |-> ncx * nny * nnz, nXFace |-> nnx * ncy * ncz,
     nYFace |-> ncx * nny * ncz, nZFace |-> ncx * ncy * nnz]

\* a coupled start that leaves the pressure count of the lower ranks out
StartCoupled_Velocity(stv, stp) == stv

\* line 623: the first id of a process in the coupled numbering
StartCoupled(stv, stp) == stv + stp

\* the content of a local vector fresh from DMCreateLocalVector
NewLocalVector(c) == [pt \in Ghosted(c) |-> 0]

\* DOFIndexCreate, lines 598-631; SUM is the result of the MPI_Scan
DOFIndexCreate(lnv, lnp, SUM, G, g) ==
    [idxmod |-> "IDXNONE",
     lnv |-> lnv, lnp |-> lnp,
     stv |-> SUM[0] - lnv, stp |-> SUM[1] - lnp,
     ln  |-> lnv + lnp,
     st  |-> StartCoupled(SUM[0] - lnv, SUM[1] - lnp),
     ivx |-> NewLocalVector(DMDAGetCorners(DA_X(G), G, g)),
     ivy |-> NewLocalVector(DMDAGetCorners(DA_Y(G), G, g)),
     ivz |-> NewLocalVector(DMDAGetCorners(DA_Z(G), G, g)),
     ip  |-> NewLocalVector(DMDAGetCorners(DA_CEN(G), G, g))]

\* lines 607-609 and 610: the local number of velocity and pressure unknowns
LocalVelocities(G, g) ==
    CornerCount(DMDAGetCorners(DA_X(G), G, g))
    + CornerCount(DMDAGetCorners(DA_Y(G), G, g))
    + CornerCount(DMDAGetCorners(DA_Z(G), G, g))

LocalPressures(G, g) == CornerCount(DMDAGetCorners(DA_CEN(G), G, g))

\* lines 612-613
NUM(lnv, lnp) == (0 :> lnv) @@ (1 :> lnp)

\* MPI_Scan with MPI_SUM on rank g: lower holds the contributions of the
\* ranks below g, own the one of g
MPI_Scan(lower, g, own) ==
    [c \in 0..1 |-> SumTo([q \in 0..(g - 1) |-> lower[q][c]], g) + own[c]]

\* lines 886-900 of FDSTAGCreate
FDSTAGOf(dsx, dsy, dsz, dof) ==
    PointCounts(dsx.nnods, dsy.nnods, dsz.nnods, dsx.ncels, dsy.ncels, dsz.ncels)
    @@ [pc |-> "created", dsx |-> dsx, dsy |-> dsy, dsz |-> dsz, dof |-> dof]

\* FDSTAGCreate on the process at (rx, ry, rz), global rank g
FDSTAGCreate(G, g, rx, ry, rz, lower) ==
    FDSTAGOf(
        Discret1DCreate(G.Px, rx, GridLx(G), ry + rz * G.Py,
                        getGlobalRank(rx - 1, ry, rz, G.Px, G.Py, G.Pz),
                        getGlobalRank(rx + 1, ry, rz, G.Px, G.Py, G.Pz)),
        Discret1DCreate(G.Py, ry, GridLy(G), rx + rz * G.Px,
                        getGlobalRank(rx, ry - 1, rz, G.Px, G.Py, G.Pz),
                        getGlobalRank(rx, ry + 1, rz, G.Px, G.Py, G.Pz)),
        Discret1DCreate(G.Pz, rz, GridLz(G), rx + ry * G.Px,
                        getGlobalRank(rx, ry, rz - 1, G.Px, G.Py, G.Pz),
                        getGlobalRank(rx, ry, rz + 1, G.Px, G.Py, G.Pz)),
        DOFIndexCreate(LocalVelocities(G, g), LocalPressures(G, g),
                       MPI_Scan(lower, g, NUM(LocalVelocities(G, g),
                                              LocalPressures(G, g))),
                       G, g))


\* VecSet that clears the vector instead of storing the value
VecSet_Zero(c, v) == [pt \in Ghosted(c) |-> 0]

\* VecSet(vec, v) on a ghosted local vector
VecSet(c, v) == [pt \in Ghosted(c) |-> v]

\* lines 661-664 and one of the loops of lines 683-723: the vector set to
\* -1, then the owned points numbered from st on
Numbered(c, st) ==
    [pt \in Ghosted(c) |->
        IF pt \in Owned(c) THEN st + START_STD_LOOP(c, pt)
        ELSE VecSet(c, -1)[pt]]

\* lines 676-677
VelocityStart(dof, idxmod) == IF idxmod = "IDXCOUPLED" THEN dof.st ELSE dof.stv

PressureStart(dof, idxmod) ==
    IF idxmod = "IDXCOUPLED" THEN dof.st + dof.lnv ELSE dof.stp

\* lines 661-729 of DOFIndexCompute, with the corners of the four arrays
NumberLocal(dof, cx, cy, cz, cp, stv, stp) ==
    [dof EXCEPT !.ivx = Numbered(cx, stv),
                !.ivy = Numbered(cy, stv + CornerCount(cx)),
                !.ivz = Numbered(cz, stv + CornerCount(cx) + CornerCount(cy)),
                !.ip  = Numbered(cp, stp)]

\* LOCAL_TO_LOCAL(da, vec) on rank g: every ghost point of the local vector
\* that another process owns takes the value that process holds for it
LOCAL_TO_LOCAL(da, vec, G, g) ==
    [pt \in DOMAIN fs[g].dof[vec] |->
        IF InDomain(da, G, pt) /\ pt \notin Owned(DMDAGetCorners(da, G, g))
        THEN fs[Owner(da, G, pt)].dof[vec][pt]
        ELSE fs[g].dof[vec][pt]]

\* the processes whose points the ghost layer of rank g holds (box stencil)
Neighbours(G, g) ==
    {q \in Ranks(G) : /\ q # g
                      /\ Abs(RankX(G, q) - RankX(G, g)) <= 1
                      /\ Abs(RankY(G, q) - RankY(G, g)) <= 1
                      /\ Abs(RankZ(G, q) - RankZ(G, g)) <= 1}

---------------------------------------------------------------------------
(* The grid state machine *)

\* grids of at most MaxVolume cells on at most MaxRanks processes, every
\* process with a cell or more along every axis
GridInputs ==
    {G \in [Nx : 2..(MaxVolume + 1), Ny : 2..(MaxVolume + 1),
            Nz : 2..(MaxVolume + 1),
            Px : 1..MaxRanks, Py : 1..MaxRanks, Pz : 1..MaxRanks,
            idxmod : {"IDXCOUPLED", "IDXUNCOUPLED"}] :
        /\ (G.Nx - 1) * (G.Ny - 1) * (G.Nz - 1) <= MaxVolume
        /\ G.Px * G.Py * G.Pz <= MaxRanks
        /\ G.Px <= G.Nx - 1 /\ G.Py <= G.Ny - 1 /\ G.Pz <= G.Nz - 1}

InitGrid ==
    /\ grid \in GridInputs
    /\ fs = [g \in Ranks(grid) |-> [pc |-> "start"]]
    /\ AxisIdle /\ SegIdle /\ CopyIdle /\ CourantIdle

\* FDSTAGCreate returns on rank g; the MPI_Scan of DOFIndexCreate has the
\* contributions of the lower ranks
CreateGrid(g) ==
    /\ fs[g].pc = "start"
    /\ \A q \in 0..(g - 1) : fs[q].pc # "start"
    /\ fs' = [fs EXCEPT ![g] =
                FDSTAGCreate(grid, g, RankX(grid, g), RankY(grid, g),
                             RankZ(grid, g),
                             [q \in 0..(g - 1) |->
                                 NUM(fs[q].dof.lnv, fs[q].dof.lnp)])]
    /\ UNCHANGED <<grid, axisVars, segVars, copyVars, courantVars>>

\* DOFIndexCompute on rank g up to the first exchange
DOFIndexCompute(g) ==
    /\ fs[g].pc = "created"
    /\ fs' = [fs EXCEPT ![g].pc = "numbered",
                        ![g].dof =
                NumberLocal(@, DMDAGetCorners(DA_X(grid), grid, g),
                               DMDAGetCorners(DA_Y(grid), grid, g),
                               DMDAGetCorners(DA_Z(grid), grid, g),
                               DMDAGetCorners(DA_CEN(grid), grid, g),
                               VelocityStart(@, grid.idxmod),
                               PressureStart(@, grid.idxmod))]
    /\ UNCHANGED <<grid, axisVars, segVars, copyVars, courantVars>>

\* lines 732-738 of DOFIndexCompute on rank g: the four exchanges, which
\* return once the neighbours have numbered their points, and the index mode
DOFIndexExchange(g) ==
    /\ fs[g].pc = "numbered"
    /\ \A q \in Neighbours(grid, g) : fs[q].pc \in {"numbered", "indexed"}
    /\ fs' = [fs EXCEPT ![g].pc = "indexed",
                        ![g].dof =
                [@ EXCEPT !.ivx = LOCAL_TO_LOCAL(DA_X(grid), "ivx", grid, g),
                          !.ivy = LOCAL_TO_LOCAL(DA_Y(grid), "ivy", grid, g),
                          !.ivz = LOCAL_TO_LOCAL(DA_Z(grid), "ivz", grid, g),
                          !.ip  = LOCAL_TO_LOCAL(DA_CEN(grid), "ip", grid, g),
                          !.idxmod = grid.idxmod]]
    /\ UNCHANGED <<grid, axisVars, segVars, copyVars, courantVars>>

NextGrid ==
    \/ \E g \in Ranks(grid) : CreateGrid(g)
    \/ \E g \in Ranks(grid) : DOFIndexCompute(g)
    \/ \E g \in Ranks(grid) : DOFIndexExchange(g)

SpecGrid == InitGrid /\ [][NextGrid]_vars

---------------------------------------------------------------------------
(* Claims on the grid: C4, C5, C6 *)

\* f[g] summed over the processes of the grid
SumOverRanks(f) == SumTo(f, grid.Px * grid.Py * grid.Pz)

\* FDSTAGCreate has returned on every process
AllGridCreated == \A g \in Ranks(grid) : fs[g].pc # "start"

\* the sum of a local point count over the processes
TotalCount(set) == SumOverRanks([g \in Ranks(grid) |-> fs[g][set]])

\* C4: once FDSTAGCreate has returned on every process, every process has the
\* global node and cell totals of the three axes (tnods = N, tcels = N-1), and
\* each of the eight local counts summed over the processes equals the
\* product formula of its point set applied to these totals.
C4_GlobalCounts ==
    AllGridCreated =>
        /\ \A g \in Ranks(grid) :
              /\ fs[g].dsx.tnods = grid.Nx /\ fs[g].dsx.tcels = grid.Nx - 1
              /\ fs[g].dsy.tnods = grid.Ny /\ fs[g].dsy.tcels = grid.Ny - 1
              /\ fs[g].dsz.tnods = grid.Nz /\ fs[g].dsz.tcels = grid.Nz - 1
        /\ TotalCount("nCells") = (grid.Nx - 1) * (grid.Ny - 1) * (grid.Nz - 1)
        /\ TotalCount("nCorns") = grid.Nx * grid.Ny * grid.Nz
        /\ TotalCount("nXYEdg") = grid.Nx * grid.Ny * (grid.Nz - 1)
        /\ TotalCount("nXZEdg") = grid.Nx * (grid.Ny - 1) * grid.Nz
        /\ TotalCount("nYZEdg") = (grid.Nx - 1) * grid.Ny * grid.Nz
        /\ TotalCount("nXFace") = grid.Nx * (grid.Ny - 1) * (grid.Nz - 1)
        /\ TotalCount("nYFace") = (grid.Nx - 1) * grid.Ny * (grid.Nz - 1)
        /\ TotalCount("nZFace") = (grid.Nx - 1) * (grid.Ny - 1) * grid.Nz

\* C4 witness: a grid split along two axes, created on every process
C4_Witness ==
    /\ grid.Px >= 2 /\ grid.Py >= 2
    /\ AllGridCreated

\* the four ghosted index arrays with their distributed arrays
IndexArrays ==
    {<<"ivx", DA_X(grid)>>, <<"ivy", DA_Y(grid)>>, <<"ivz", DA_Z(grid)>>,
     <<"ip", DA_CEN(grid)>>}

\* DOFIndexCompute has completed on rank g
Indexed(g) == fs[g].pc = "indexed"

HasNumbered(g) == fs[g].pc \in {"numbered", "indexed"}

\* the ids an index array of rank g holds at the points the rank owns
OwnedIds(g, vec, da) ==
    {fs[g].dof[vec][pt] : pt \in Owned(DMDAGetCorners(da, grid, g))}

\* lnv + lnp summed over the ranks below g
LowerUnknowns(g) ==
    SumTo([q \in 0..(g - 1) |-> fs[q].dof.lnv + fs[q].dof.lnp], g)

\* C6: in coupled mode, a process r that has numbered its points has st_r equal
\* to the sum of lnv+lnp over the lower ranks; its owned X faces hold the ids
\* st_r .. st_r+nXFace-1, its Y faces the next nYFace ids, its Z faces the
\* next nZFace ids, and its centers the ids st_r+lnv .. st_r+ln_r-1, each id
\* once; once all processes have numbered, their id ranges follow each other
\* from 0 without gap or overlap.
C6_CoupledNumbering ==
    grid.idxmod = "IDXCOUPLED" =>
        /\ \A g \in Ranks(grid) : HasNumbered(g) =>
              /\ fs[g].dof.st = LowerUnknowns(g)
              /\ fs[g].dof.ln = fs[g].dof.lnv + fs[g].dof.lnp
              /\ fs[g].dof.lnv = fs[g].nXFace + fs[g].nYFace + fs[g].nZFace
              /\ OwnedIds(g, "ivx", DA_X(grid)) =
                    fs[g].dof.st..(fs[g].dof.st + fs[g].nXFace - 1)
              /\ OwnedIds(g, "ivy", DA_Y(grid)) =
                    (fs[g].dof.st + fs[g].nXFace)
                    ..(fs[g].dof.st + fs[g].nXFace + fs[g].nYFace - 1)
              /\ OwnedIds(g, "ivz", DA_Z(grid)) =
                    (fs[g].dof.st + fs[g].nXFace + fs[g].nYFace)
                    ..(fs[g].dof.st + fs[g].dof.lnv - 1)
              /\ OwnedIds(g, "ip", DA_CEN(grid)) =
                    (fs[g].dof.st + fs[g].dof.lnv)
                    ..(fs[g].dof.st + fs[g].dof.ln - 1)
              /\ Cardinality(Owned(DMDAGetCorners(DA_X(grid), grid, g)))
                    = fs[g].nXFace
              /\ Cardinality(Owned(DMDAGetCorners(DA_Y(grid), grid, g)))
                    = fs[g].nYFace
              /\ Cardinality(Owned(DMDAGetCorners(DA_Z(grid), grid, g)))
                    = fs[g].nZFace
              /\ Cardinality(Owned(DMDAGetCorners(DA_CEN(grid), grid, g)))
                    = fs[g].dof.lnp
        /\ \A g \in Ranks(grid) : HasNumbered(g) =>
              \A q \in 0..(g - 1) :
                  fs[q].dof.st + fs[q].dof.ln <= fs[g].dof.st
        /\ \A g \in Ranks(grid) : (HasNumbered(g) /\ g > 0) =>
              fs[g].dof.st = fs[g - 1].dof.st + fs[g - 1].dof.ln
        /\ HasNumbered(0) => fs[0].dof.st = 0

\* C6 witness: coupled mode on three or more processes, all numbered, velocity
\* and pressure unknowns on the lower ranks
C6_Witness ==
    /\ grid.idxmod = "IDXCOUPLED"
    /\ grid.Px * grid.Py * grid.Pz >= 3
    /\ \A g \in Ranks(grid) : HasNumbered(g)
    /\ fs[2].dof.stp > 1

---------------------------------------------------------------------------
(* JacRes: copies between the coupled vectors and the component vectors *)

\* largest number of single-point constraints, both lists together
MaxSPC == 2

\* PetscMemcpy of n entries, from offset so of src to offset do of dst
PetscMemcpy(dst, do, src, so, n) ==
    [i \in DOMAIN dst |->
        IF i \in do..(do + n - 1) THEN src[so + (i - do)] ELSE dst[i]]

RECURSIVE SetSPC(_, _, _)
RECURSIVE ZeroSPC(_, _, _)

\* single-point constraints that are not enforced
SetSPC_Skip(sol, spc, i) == sol

\* lines 1250 and 1257: sol[list[i]] = vals[i] for the constraints from the
\* i-th on
SetSPC(sol, spc, i) ==
    IF i > Len(spc) THEN sol
    ELSE SetSPC([sol EXCEPT ![spc[i].idx] = spc[i].val], spc, i + 1)

\* constrained residuals that are left as they are
ZeroSPC_Skip(res, spc, i) == res

\* lines 1458 and 1464: res[list[i]] = 0.0 for the constraints from the i-th on
ZeroSPC(res, spc, i) ==
    IF i > Len(spc) THEN res
    ELSE ZeroSPC([res EXCEPT ![spc[i].idx] = 0], spc, i + 1)

\* a vector of n entries, zero as VecCreate leaves it
NewVector(n) == [i \in 0..(n - 1) |-> 0]

\* the ranges of the loops over the points with their interior ghosts
GET_NODE_RANGE_GHOST_INT(d) ==
    [s |-> IF d.grprev # -1 THEN d.pstart - 1 ELSE d.pstart,
     n |-> d.nnods + (IF d.grprev # -1 THEN 1 ELSE 0)
                   + (IF d.grnext # -1 THEN 1 ELSE 0)]

GET_CELL_RANGE_GHOST_INT(d) ==
    [s |-> IF d.grprev # -1 THEN d.pstart - 1 ELSE d.pstart,
     n |-> d.ncels + (IF d.grprev # -1 THEN 1 ELSE 0)
                   + (IF d.grnext # -1 THEN 1 ELSE 0)]

\* the loop range made of three axis ranges
LoopRange(rx, ry, rz) ==
    [sx |-> rx.s, nx |-> rx.n, sy |-> ry.s, ny |-> ry.n, sz |-> rz.s, nz |-> rz.n]

\* the n-th point (from 1) the loop over range c visits
LoopPoint(c, n) ==
    <<c.sx + ((n - 1) % c.nx),
      c.sy + (((n - 1) \div c.nx) % c.ny),
      c.sz + ((n - 1) \div (c.nx * c.ny))>>

\* GLOBAL_TO_LOCAL(da, g, l) on the single process of a sequential run: the
\* owned points of the local vector take the entries of the global vector
GLOBAL_TO_LOCAL(c, g, l) ==
    [pt \in DOMAIN l |->
        IF pt \in Owned(c) THEN g[START_STD_LOOP(c, pt)] ELSE l[pt]]

\* SET_TPC(bc, a, k, j, i, pmdof): the ghost value at point at, mirrored
\* about the boundary value where the boundary-condition array has one
SET_TPC(bc, a, at, pmdof) ==
    [a EXCEPT ![at] = IF at \in DOMAIN bc THEN 2 * bc[at] - pmdof ELSE pmdof]

\* SET_EDGE_CORNER(n, a, K, J, I, k, j, i, pmdof): the ghost value at tgt,
\* diagonal to point pt, from the ghost values next to pt
SET_EDGE_CORNER(a, tgt, pt, pmdof) ==
    [a EXCEPT ![tgt] = a[<<tgt[1], pt[2], pt[3]>>] + a[<<pt[1], tgt[2], pt[3]>>]
                       + a[<<pt[1], pt[2], tgt[3]>>] - 2 * pmdof]

\* lines 1317-1318 for axis ax (1, 2 or 3) of point pt: the flag, the index
\* left in I, J or K, and the two stores
OnBoundary(pt, ax, mc) == pt[ax] = 0 \/ pt[ax] = mc[ax]

GhostIndex(pt, ax, mc) ==
    IF pt[ax] = mc[ax] THEN pt[ax] + 1
    ELSE IF pt[ax] = 0 THEN pt[ax] - 1 ELSE pt[ax]

TpcLow(bc, a, pt, ax, pmdof) ==
    IF pt[ax] = 0 THEN SET_TPC(bc, a, [pt EXCEPT ![ax] = @ - 1], pmdof) ELSE a

\* the upper store made at the index below the point
TpcHigh_Below(bc, a, pt, ax, mc, pmdof) ==
    IF pt[ax] = mc[ax] THEN SET_TPC(bc, a, [pt EXCEPT ![ax] = @ - 1], pmdof)
    ELSE a

\* line 1318: the store above the last cell of axis ax
TpcHigh(bc, a, pt, ax, mc, pmdof) ==
    IF pt[ax] = mc[ax] THEN SET_TPC(bc, a, [pt EXCEPT ![ax] = @ + 1], pmdof)
    ELSE a

TpcAxis(bc, a, pt, ax, mc, pmdof) ==
    TpcHigh(bc, TpcLow(bc, a, pt, ax, pmdof), pt, ax, mc, pmdof)

\* line 1322: the store at the ghost point diagonal to pt across the axes of
\* set axes, made when pt is on the boundary along each of them
TpcCorner(a, pt, axes, mc, pmdof) ==
    IF \A ax \in axes : OnBoundary(pt, ax, mc)
    THEN SET_EDGE_CORNER(a, [ax \in 1..3 |-> IF ax \in axes
                                             THEN GhostIndex(pt, ax, mc)
                                             ELSE pt[ax]], pt, pmdof)
    ELSE a

\* the body of the loops of lines 1310-1371 for a point of a face array
\* constrained along axes a1 and a2, and of lines 1380-1400 for a center
TpcFacePoint(bc, a, pt, a1, a2, mc, pmdof) ==
    TpcCorner(TpcAxis(bc, TpcAxis(bc, a, pt, a1, mc, pmdof), pt, a2, mc, pmdof),
              pt, {a1, a2}, mc, pmdof)

TpcCenterPoint(bc, a, pt, mc, pmdof) ==
    TpcCorner(TpcCorner(TpcCorner(TpcCorner(
        TpcAxis(bc, TpcAxis(bc, TpcAxis(bc, a, pt, 1, mc, pmdof),
                            pt, 2, mc, pmdof), pt, 3, mc, pmdof),
        pt, {1, 2}, mc, pmdof), pt, {1, 3}, mc, pmdof),
        pt, {2, 3}, mc, pmdof), pt, {1, 2, 3}, mc, pmdof)

RECURSIVE TpcLoop(_, _, _, _, _, _)
\* one of the four loops, from its n-th point on; axes is the pair of
\* constrained axes of a face array, or all three for the centers
TpcLoop(bc, a, c, n, axes, mc) ==
    IF n > CornerCount(c) THEN a
    ELSE TpcLoop(bc,
                 IF Len(axes) = 2
                 THEN TpcFacePoint(bc, a, LoopPoint(c, n), axes[1], axes[2], mc,
                                   a[LoopPoint(c, n)])
                 ELSE TpcCenterPoint(bc, a, LoopPoint(c, n), mc,
                                     a[LoopPoint(c, n)]),
                 c, n + 1, axes, mc)

\* line 1230-1232: the maximal cell index in all directions
MaxCellIndex(f) == <<f.dsx.tcels - 1, f.dsy.tcels - 1, f.dsz.tcels - 1>>

\* lines 1250-1257: the solution array with the single-point constraints
\* enforced, velocity first
ConstrainedSol(x, bc) == SetSPC(SetSPC(x, bc.vSPC, 1), bc.pSPC, 1)

\* lines 1259-1271 of JacResCopySol: the four component vectors cut out of sol
SplitSol(j, sol) ==
    [j EXCEPT
        !.x   = sol,
        !.gvx = PetscMemcpy(@, 0, sol, 0, j.fs.nXFace),
        !.gvy = PetscMemcpy(@, 0, sol, j.fs.nXFace, j.fs.nYFace),
        !.gvz = PetscMemcpy(@, 0, sol, j.fs.nXFace + j.fs.nYFace, j.fs.nZFace),
        !.gp  = PetscMemcpy(@, 0, sol,
                            j.fs.nXFace + j.fs.nYFace + j.fs.nZFace,
                            j.fs.nCells)]

\* lines 1281-1284
FillLocal(j, G) ==
    [j EXCEPT
        !.lvx = GLOBAL_TO_LOCAL(DMDAGetCorners(DA_X(G), G, 0), j.gvx, @),
        !.lvy = GLOBAL_TO_LOCAL(DMDAGetCorners(DA_Y(G), G, 0), j.gvy, @),
        !.lvz = GLOBAL_TO_LOCAL(DMDAGetCorners(DA_Z(G), G, 0), j.gvz, @),
        !.lp  = GLOBAL_TO_LOCAL(DMDAGetCorners(DA_CEN(G), G, 0), j.gp, @)]

\* lines 1298-1400: the two-point constraints
TwoPoint(j) ==
    [j EXCEPT
        !.lvx = TpcLoop(j.bc.bcvx, @,
                        LoopRange(GET_NODE_RANGE_GHOST_INT(j.fs.dsx),
                                  GET_CELL_RANGE_GHOST_INT(j.fs.dsy),
                                  GET_CELL_RANGE_GHOST_INT(j.fs.dsz)),
                        1, <<2, 3>>, MaxCellIndex(j.fs)),
        !.lvy = TpcLoop(j.bc.bcvy, @,
                        LoopRange(GET_CELL_RANGE_GHOST_INT(j.fs.dsx),
                                  GET_NODE_RANGE_GHOST_INT(j.fs.dsy),
                                  GET_CELL_RANGE_GHOST_INT(j.fs.dsz)),
                        1, <<1, 3>>, MaxCellIndex(j.fs)),
        !.lvz = TpcLoop(j.bc.bcvz, @,
                        LoopRange(GET_CELL_RANGE_GHOST_INT(j.fs.dsx),
                                  GET_CELL_RANGE_GHOST_INT(j.fs.dsy),
                                  GET_NODE_RANGE_GHOST_INT(j.fs.dsz)),
                        1, <<1, 2>>, MaxCellIndex(j.fs)),
        !.lp  = TpcLoop(j.bc.bcp, @,
                        LoopRange(GET_CELL_RANGE_GHOST_INT(j.fs.dsx),
                                  GET_CELL_RANGE_GHOST_INT(j.fs.dsy),
                                  GET_CELL_RANGE_GHOST_INT(j.fs.dsz)),
                        1, <<1, 2, 3>>, MaxCellIndex(j.fs))]

\* JacResCopySol(jr, x) on the single process of grid G
JacResCopySol(j, x, G) == TwoPoint(FillLocal(SplitSol(j, ConstrainedSol(x, j.bc)), G))

\* the offset of the continuity block taken to be the one of the Z faces
ContinuityOffset_ZFaces(f) == f.nXFace + f.nYFace

\* line 1536: the offset of the continuity block in f
ContinuityOffset(f) == f.dof.lnv

\* lines 1440-1452 of JacResCopyRes: the four residual arrays laid into res
JoinRes(j, res) ==
    PetscMemcpy(
        PetscMemcpy(
            PetscMemcpy(
                PetscMemcpy(res, 0, j.gfx, 0, j.fs.nXFace),
                j.fs.nXFace, j.gfy, 0, j.fs.nYFace),
            j.fs.nXFace + j.fs.nYFace, j.gfz, 0, j.fs.nZFace),
        j.fs.nXFace + j.fs.nYFace + j.fs.nZFace, j.gc, 0, j.fs.nCells)

\* JacResCopyRes(jr, f): the content of f on return
JacResCopyRes(j) == ZeroSPC(ZeroSPC(JoinRes(j, j.f), j.bc.vSPC, 1), j.bc.pSPC, 1)

\* JacResCopyMomentumRes(jr, f)
JacResCopyMomentumRes(j) ==
    [j EXCEPT
        !.gfx = PetscMemcpy(@, 0, j.f, 0, j.fs.nXFace),
        !.gfy = PetscMemcpy(@, 0, j.f, j.fs.nXFace, j.fs.nYFace),
        !.gfz = PetscMemcpy(@, 0, j.f, j.fs.nXFace + j.fs.nYFace, j.fs.nZFace)]

\* JacResCopyContinuityRes(jr, f)
JacResCopyContinuityRes(j) ==
    [j EXCEPT !.gc = PetscMemcpy(@, 0, j.f, ContinuityOffset(j.fs), j.fs.nCells)]


---------------------------------------------------------------------------
(* The copy state machine: one process, a sequential run *)

\* the grids of the copy machine: one cell, and two cells along x
CopyGrids ==
    {[Nx |-> nx, Ny |-> 2, Nz |-> 2, Px |-> 1, Py |-> 1, Pz |-> 1,
      idxmod |-> "IDXCOUPLED"] : nx \in {2, 3}}

\* the sequences over S of length up to n
SeqsUpTo(S, n) == UNION {[1..k -> S] : k \in 0..n}

\* the values a constraint prescribes
SPCValues == {0, 7}

\* the dofs a velocity constraint is put on: the first and the last X face,
\* the first Y face and the last Z face; and the first and last center for a
\* pressure constraint
VelocityDofs(f) == {0, f.nXFace - 1, f.nXFace, f.dof.lnv - 1}

PressureDofs(f) == {f.dof.lnv, f.dof.ln - 1}

\* the single-point constraint lists of the boundary-condition context: any
\* order, duplicates included
SPCInputs(f) ==
    {l \in [vSPC : SeqsUpTo([idx : VelocityDofs(f), val : SPCValues], MaxSPC),
            pSPC : SeqsUpTo([idx : PressureDofs(f), val : SPCValues], MaxSPC)] :
        Len(l.vSPC) + Len(l.pSPC) <= MaxSPC}

\* the boundary-condition array of a point set: the boundary value 1 at the
\* ghost points of the lower sides, no boundary value elsewhere
BCArray(c) ==
    [pt \in {g \in Ghosted(c) \ Owned(c) :
                g[1] < c.sx \/ g[2] < c.sy \/ g[3] < c.sz} |-> 1]

BCCtx(l, G) ==
    [vSPC |-> l.vSPC, pSPC |-> l.pSPC,
     bcvx |-> BCArray(DMDAGetCorners(DA_X(G), G, 0)),
     bcvy |-> BCArray(DMDAGetCorners(DA_Y(G), G, 0)),
     bcvz |-> BCArray(DMDAGetCorners(DA_Z(G), G, 0)),
     bcp  |-> BCArray(DMDAGetCorners(DA_CEN(G), G, 0))]

\* a vector of n entries, all different: base, base+1, ...
Ramp(n, base) == [i \in 0..(n - 1) |-> base + i]

\* the residual arrays as a residual evaluation left them
ResidualArrays(f) ==
    [gfx |-> Ramp(f.nXFace, 100), gfy |-> Ramp(f.nYFace, 200),
     gfz |-> Ramp(f.nZFace, 300), gc |-> Ramp(f.nCells, 400)]

\* JacResCreate for FDSTAG f and boundary-condition context bc, followed by
\* a residual evaluation
JacResCreate(G, f, bc) ==
    [G |-> G, fs |-> f, bc |-> bc,
     x |-> NewVector(f.dof.ln), xin |-> NewVector(f.dof.ln),
     f |-> NewVector(f.dof.ln),
     gvx |-> NewVector(f.nXFace), gvy |-> NewVector(f.nYFace),
     gvz |-> NewVector(f.nZFace), gp |-> NewVector(f.nCells),
     lvx |-> NewLocalVector(DMDAGetCorners(DA_X(G), G, 0)),
     lvy |-> NewLocalVector(DMDAGetCorners(DA_Y(G), G, 0)),
     lvz |-> NewLocalVector(DMDAGetCorners(DA_Z(G), G, 0)),
     lp  |-> NewLocalVector(DMDAGetCorners(DA_CEN(G), G, 0)),
     gfx |-> ResidualArrays(f).gfx, gfy |-> ResidualArrays(f).gfy,
     gfz |-> ResidualArrays(f).gfz, gc |-> ResidualArrays(f).gc,
     res |-> ResidualArrays(f),
     sol |-> FALSE, copied |-> FALSE, mom |-> FALSE, cont |-> FALSE]

\* the FDSTAG of the single process of grid G
SequentialFDSTAG(G) == FDSTAGCreate(G, 0, 0, 0, 0, <<>>)

InitCopy ==
    /\ \E G \in CopyGrids :
       \E l \in SPCInputs(SequentialFDSTAG(G)) :
           jr = JacResCreate(G, SequentialFDSTAG(G), BCCtx(l, G))
    /\ AxisIdle /\ SegIdle /\ GridIdle /\ CourantIdle

\* JacResCopySol(jr, x) for a solution vector x of distinct entries; xin keeps
\* what x held at the call
CopySol ==
    /\ jr' = [JacResCopySol(jr, Ramp(jr.fs.dof.ln, 10), jr.G)
                 EXCEPT !.xin = Ramp(jr.fs.dof.ln, 10), !.sol = TRUE]
    /\ UNCHANGED <<axisVars, segVars, gridVars, courantVars>>

\* JacResCopyRes(jr, f); res keeps what the residual arrays held at the call
CopyRes ==
    /\ jr' = [jr EXCEPT !.f = JacResCopyRes(jr),
                        !.res = [gfx |-> jr.gfx, gfy |-> jr.gfy,
                                 gfz |-> jr.gfz, gc |-> jr.gc],
                        !.copied = TRUE]
    /\ UNCHANGED <<axisVars, segVars, gridVars, courantVars>>

\* JacResCopyMomentumRes(jr, f) for the residual vector f that JacResCopyRes
\* filled
CopyMomentumRes ==
    /\ jr.copied
    /\ jr' = [JacResCopyMomentumRes(jr) EXCEPT !.mom = TRUE]
    /\ UNCHANGED <<axisVars, segVars, gridVars, courantVars>>

\* JacResCopyContinuityRes(jr, f) for the residual vector f that
\* JacResCopyRes filled
CopyContinuityRes ==
    /\ jr.copied
    /\ jr' = [JacResCopyContinuityRes(jr) EXCEPT !.cont = TRUE]
    /\ UNCHANGED <<axisVars, segVars, gridVars, courantVars>>

NextCopy ==
    \/ CopySol
    \/ CopyRes
    \/ CopyMomentumRes
    \/ CopyContinuityRes

SpecCopy == InitCopy /\ [][NextCopy]_vars

---------------------------------------------------------------------------
(* Claims on the copies: C7, C8, C9 *)

\* the dof indices of a constraint list
SPCIndices(spc) == {spc[i].idx : i \in 1..Len(spc)}

Constrained(j) == SPCIndices(j.bc.vSPC) \cup SPCIndices(j.bc.pSPC)

\* the entry for dof i in four component arrays laid out as X faces, Y faces,
\* Z faces, centers
ComponentEntry(f, ax, ay, az, ac, i) ==
    IF i < f.nXFace THEN ax[i]
    ELSE IF i < f.nXFace + f.nYFace THEN ay[i - f.nXFace]
    ELSE IF i < f.nXFace + f.nYFace + f.nZFace
         THEN az[i - f.nXFace - f.nYFace]
    ELSE ac[i - f.nXFace - f.nYFace - f.nZFace]

\* C7: once JacResCopyRes has run, the entry of f at every dof index of the
\* velocity or pressure constraint list is 0, and every other entry is the
\* entry of the residual array (gfx, gfy, gfz or gc, as they were at the call)
\* that the index falls in.
C7_ConstrainedResidualZero ==
    jr.copied =>
        \A i \in 0..(jr.fs.dof.ln - 1) :
            IF i \in Constrained(jr) THEN jr.f[i] = 0
            ELSE jr.f[i] = ComponentEntry(jr.fs, jr.res.gfx, jr.res.gfy,
                                          jr.res.gfz, jr.res.gc, i)

\* C7 witness: JacResCopyRes has run with a velocity index listed twice and a
\* pressure constraint, on non-zero residuals
C7_Witness ==
    /\ jr.copied
    /\ Len(jr.bc.vSPC) = 2 /\ jr.bc.vSPC[1].idx = jr.bc.vSPC[2].idx
    /\ jr.res.gfx[0] # 0

\* C8 as stated: once JacResCopySol has run, for every pair of the two lists
\* the component entry of the pair's index holds the pair's value, and the
\* entries of x at indices in no list are the ones x had at the call.
C8_EveryPairHolds ==
    jr.sol =>
        /\ \A spc \in {jr.bc.vSPC, jr.bc.pSPC} : \A n \in 1..Len(spc) :
              ComponentEntry(jr.fs, jr.gvx, jr.gvy, jr.gvz, jr.gp, spc[n].idx)
                  = spc[n].val
        /\ \A i \in 0..(jr.fs.dof.ln - 1) :
              i \notin Constrained(jr) => jr.x[i] = jr.xin[i]

\* the value of the last pair for index i in the velocity list followed by
\* the pressure list
LastValue(j, i) ==
    (j.bc.vSPC \o j.bc.pSPC)[
        CHOOSE n \in 1..(Len(j.bc.vSPC) + Len(j.bc.pSPC)) :
            /\ (j.bc.vSPC \o j.bc.pSPC)[n].idx = i
            /\ \A m \in (n + 1)..(Len(j.bc.vSPC) + Len(j.bc.pSPC)) :
                  (j.bc.vSPC \o j.bc.pSPC)[m].idx # i].val

\* C8 amended: once JacResCopySol has run, for every index of the two lists
\* the component entry and the entry of x hold the value of the last pair
\* with that index (velocity list first, then pressure list), which is the
\* prescribed value whenever the pairs of an index agree; at every other index
\* x is what it was at the call and the component entry is that value.
C8_LastPairHolds ==
    jr.sol =>
        \A i \in 0..(jr.fs.dof.ln - 1) :
            /\ ComponentEntry(jr.fs, jr.gvx, jr.gvy, jr.gvz, jr.gp, i) = jr.x[i]
            /\ jr.x[i] = IF i \in Constrained(jr) THEN LastValue(jr, i)
                         ELSE jr.xin[i]

\* C8 witness: JacResCopySol has run with two pairs of different values for
\* one velocity index
C8_Witness ==
    /\ jr.sol
    /\ Len(jr.bc.vSPC) = 2
    /\ jr.bc.vSPC[1].idx = jr.bc.vSPC[2].idx
    /\ jr.bc.vSPC[1].val # jr.bc.vSPC[2].val

\* C9: once JacResCopyRes has run, f is the four blocks gfx, gfy, gfz, gc (as
\* they were at the call) of lengths nXFace, nYFace, nZFace, nCells, with the
\* constrained entries zeroed; once JacResCopyMomentumRes and
\* JacResCopyContinuityRes have run on that f, the four arrays hold the
\* blocks of f; and dof.lnv = nXFace+nYFace+nZFace, dof.lnp = nCells.
C9_BlockLayoutRoundTrip ==
    /\ jr.fs.dof.lnv = jr.fs.nXFace + jr.fs.nYFace + jr.fs.nZFace
    /\ jr.fs.dof.lnp = jr.fs.nCells
    /\ jr.copied =>
          /\ DOMAIN jr.f = 0..(jr.fs.nXFace + jr.fs.nYFace + jr.fs.nZFace
                               + jr.fs.nCells - 1)
          /\ \A i \in DOMAIN jr.f \ Constrained(jr) :
                jr.f[i] = ComponentEntry(jr.fs, jr.res.gfx, jr.res.gfy,
                                         jr.res.gfz, jr.res.gc, i)
    /\ (jr.copied /\ jr.mom /\ jr.cont) =>
          /\ DOMAIN jr.gfx = 0..(jr.fs.nXFace - 1)
          /\ DOMAIN jr.gfy = 0..(jr.fs.nYFace - 1)
          /\ DOMAIN jr.gfz = 0..(jr.fs.nZFace - 1)
          /\ DOMAIN jr.gc = 0..(jr.fs.nCells - 1)
          /\ \A i \in DOMAIN jr.f :
                /\ ComponentEntry(jr.fs, jr.gfx, jr.gfy, jr.gfz, jr.gc, i)
                      = jr.f[i]
                /\ jr.f[i] = IF i \in Constrained(jr) THEN 0
                             ELSE ComponentEntry(jr.fs, jr.res.gfx, jr.res.gfy,
                                                 jr.res.gfz, jr.res.gc, i)

\* C9 witness: the two copies back have run on the f of JacResCopyRes, on a
\* grid whose blocks differ in length, with a constrained center
C9_Witness ==
    /\ jr.copied /\ jr.mom /\ jr.cont
    /\ jr.fs.nXFace # jr.fs.nYFace
    /\ Len(jr.bc.pSPC) >= 1
    /\ jr.res.gc[0] # 0

---------------------------------------------------------------------------
(* The Courant step: JacResGetCourantStep on the process of a sequential run *)

\* largest number of calls of JacResGetCourantStep
MaxCalls == 3

\* the factor 1.1 of line 1683
GrowthFactor == Rat(11, 10)

\* one axis of n cells on [0, 2n] with one segment of the given bias, on one
\* process: Discret1DCreate, Discret1DGenCoord, Discret1DGetMinMaxCellSize
AxisMesh(n, bias) ==
    MeshSeg1DCreate(FInt(0), FInt(2 * n), n,
                    [nsegs |-> 1, ncells |-> (0 :> n), delims |-> <<>>,
                     biases |-> (0 :> bias)])

SizedAxis(d, m) == StoreSizes(d, d.lminsz, d.lmaxsz, MeshSeg1DGetUniStep(m))

SequentialAxis(n, bias) ==
    SizedAxis(Discret1DGenCoord(
                  [pc |-> "created"]
                  @@ Discret1DCreate(1, 0, (0 :> (n + 1)), 0, -1, -1),
                  AxisMesh(n, bias)),
              AxisMesh(n, bias))

\* lines 1726-1733: the inverse time step of velocity v at a point whose index
\* along the direction looked at is ijk
InvStep(d, v, ijk) ==
    IF ~FLt(v, FInt(0)) /\ ~IsNaN(v)
    THEN FDiv(v, FSub(d.ncoor[ijk + 1], d.ncoor[ijk]))
    ELSE FDiv(v, FSub(d.ncoor[ijk], d.ncoor[ijk - 1]))

RECURSIVE VariableStepLoop(_, _, _, _, _, _)
\* lines 1715-1738 from the n-th point of the loop on: the maximum inverse
\* time step on variable spacing; va holds the velocities, dir is 0, 1 or 2
VariableStepLoop(d, c, va, dir, n, idtmax) ==
    IF n > CornerCount(c) THEN idtmax
    ELSE VariableStepLoop(d, c, va, dir, n + 1,
            IF FGt(InvStep(d, va[LoopPoint(c, n)],
                           <<LoopPoint(c, n)[1] - c.sx, LoopPoint(c, n)[2] - c.sy,
                             LoopPoint(c, n)[3] - c.sz>>[dir + 1]), idtmax)
            THEN InvStep(d, va[LoopPoint(c, n)],
                         <<LoopPoint(c, n)[1] - c.sx, LoopPoint(c, n)[2] - c.sy,
                           LoopPoint(c, n)[3] - c.sz>>[dir + 1])
            ELSE idtmax)

\* lines 1751-1752: the maximum local velocity
MaxAbs(va) ==
    IF \E pt \in DOMAIN va : FGt(FAbs(va[pt]), FInt(0))
    THEN MaxOf({FAbs(va[pt]) : pt \in DOMAIN va})
    ELSE FInt(0)

\* lines 1757-1760
UniformStep(d, va, idtmax) ==
    IF FGt(FDiv(MaxAbs(va), d.h_uni), idtmax) THEN FDiv(MaxAbs(va), d.h_uni)
    ELSE idtmax

\* getMaxInvStep1DLocal(ds, da, gv, dir, &idtmax): the new value of idtmax
getMaxInvStep1DLocal(d, c, gv, dir, idtmax) ==
    IF FLt(d.h_uni, FInt(0)) THEN VariableStepLoop(d, c, gv, dir, 1, idtmax)
    ELSE UniformStep(d, gv, idtmax)

\* lines 1663-1668: the maximum local inverse time step
LocalInvStep(f, gvx, gvy, gvz) ==
    getMaxInvStep1DLocal(f.dsz, f.cz, gvz, 0,
        getMaxInvStep1DLocal(f.dsy, f.cy, gvy, 0,
            getMaxInvStep1DLocal(f.dsx, f.cx, gvx, 0, FInt(0))))

\* a step that is not cut to the Courant step
CourantCap_None(dt, gidtmax) == dt

\* line 1684, gidtmax already divided by Cmax
CourantCap(dt, gidtmax) ==
    IF FGt(dt, FDiv(FInt(1), gidtmax)) THEN FDiv(FInt(1), gidtmax) ELSE dt

\* line 1685
MaxCap(dt, dtmax) == IF FGt(dt, dtmax) THEN dtmax ELSE dt

\* lines 1680-1689: the time stepping data after the call
NewStep(t, gidtmax) ==
    [t EXCEPT !.pdt = t.dt,
              !.dt  = MaxCap(CourantCap(FMul(t.dt, GrowthFactor),
                                        FDiv(gidtmax, t.Cmax)), t.dtmax)]

\* JacResGetCourantStep on a sequential run (gidtmax = lidtmax)
JacResGetCourantStep(t, f, gvx, gvy, gvz) ==
    NewStep(t, LocalInvStep(f, gvx, gvy, gvz))

---------------------------------------------------------------------------
(* The Courant state machine *)

\* the grids: two cells along one axis, one cell along the others; the axis
\* of two cells uniform (bias 1) or not (bias 2)
CourantGrids ==
    {[Nx |-> 2 + (IF a = 1 THEN 1 ELSE 0), Ny |-> 2 + (IF a = 2 THEN 1 ELSE 0),
      Nz |-> 2 + (IF a = 3 THEN 1 ELSE 0), Px |-> 1, Py |-> 1, Pz |-> 1,
      bias |-> b] : a \in 1..3, b \in Biases}

AxisBias(G, N) == IF N > 2 THEN G.bias ELSE FInt(1)

\* the FDSTAG data of the Courant step: the three axes and the ranges of the
\* three face arrays
CourantFDSTAG(G) ==
    [dsx |-> SequentialAxis(G.Nx - 1, AxisBias(G, G.Nx)),
     dsy |-> SequentialAxis(G.Ny - 1, AxisBias(G, G.Ny)),
     dsz |-> SequentialAxis(G.Nz - 1, AxisBias(G, G.Nz)),
     cx  |-> DMDAGetCorners(DA_X(G), G, 0),
     cy  |-> DMDAGetCorners(DA_Y(G), G, 0),
     cz  |-> DMDAGetCorners(DA_Z(G), G, 0)]

\* the velocities of the moving face
Speeds == {FInt(2), FInt(-2)}

\* a velocity array over the owned points of range c: zero, but v at point at
FaceVelocity(c, at, v) == [pt \in Owned(c) |-> IF pt = at THEN v ELSE FInt(0)]

\* the velocity fields: all zero, or one face moving
Velocities(f) ==
    {[gvx |-> FaceVelocity(f.cx, <<-1, -1, -1>>, FInt(0)),
      gvy |-> FaceVelocity(f.cy, <<-1, -1, -1>>, FInt(0)),
      gvz |-> FaceVelocity(f.cz, <<-1, -1, -1>>, FInt(0))]}
    \cup {[gvx |-> FaceVelocity(f.cx, at, v),
           gvy |-> FaceVelocity(f.cy, <<-1, -1, -1>>, FInt(0)),
           gvz |-> FaceVelocity(f.cz, <<-1, -1, -1>>, FInt(0))] :
              at \in Owned(f.cx), v \in Speeds}
    \cup {[gvx |-> FaceVelocity(f.cx, <<-1, -1, -1>>, FInt(0)),
           gvy |-> FaceVelocity(f.cy, at, v),
           gvz |-> FaceVelocity(f.cz, <<-1, -1, -1>>, FInt(0))] :
              at \in Owned(f.cy), v \in Speeds}
    \cup {[gvx |-> FaceVelocity(f.cx, <<-1, -1, -1>>, FInt(0)),
           gvy |-> FaceVelocity(f.cy, <<-1, -1, -1>>, FInt(0)),
           gvz |-> FaceVelocity(f.cz, at, v)] :
              at \in Owned(f.cz), v \in Speeds}

\* the time stepping data at the start: dt, Cmax and dtmax
TSSolInputs ==
    {[dt |-> FInt(1), pdt |-> FInt(0), Cmax |-> Rat(1, 2), dtmax |-> dtmax] :
        dtmax \in {Rat(6, 5), FInt(10)}}

InitCourant ==
    /\ \E G \in CourantGrids : \E t \in TSSolInputs :
          ts = t @@ [fs |-> CourantFDSTAG(G), calls |-> 0,
                     gv |-> <<>>, idtmax |-> FInt(0)]
    /\ AxisIdle /\ SegIdle /\ GridIdle /\ CopyIdle

\* JacResGetCourantStep with the velocities gv in jr->gvx, jr->gvy, jr->gvz;
\* gv and idtmax keep the velocities and the maximum inverse time step of
\* the call
GetCourantStep(gv) ==
    /\ ts.calls < MaxCalls
    /\ ts' = [JacResGetCourantStep(ts, ts.fs, gv.gvx, gv.gvy, gv.gvz)
                 EXCEPT !.calls = @ + 1,
                        !.gv = gv,
                        !.idtmax = LocalInvStep(ts.fs, gv.gvx, gv.gvy, gv.gvz)]
    /\ UNCHANGED <<axisVars, segVars, gridVars, copyVars>>

NextCourant == \E gv \in Velocities(ts.fs) : GetCourantStep(gv)

SpecCourant == InitCourant /\ [][NextCourant]_vars

---------------------------------------------------------------------------
(* Claim on the Courant step: C10 *)

\* the smaller of two scalars
FMin(a, b) == IF FLt(b, a) THEN b ELSE a

\* C10: after every call of JacResGetCourantStep, dt is the smallest of 1.1
\* times the previous dt, Cmax divided by the maximum inverse time step of the
\* call (infinite when that is zero) and dtmax; it exceeds none of the three.
C10_StepIsMinimum ==
    ts.calls >= 1 =>
        /\ FEq(ts.dt, FMin(FMin(FMul(GrowthFactor, ts.pdt),
                                FDiv(ts.Cmax, ts.idtmax)), ts.dtmax))
        /\ ~FGt(ts.dt, FMul(GrowthFactor, ts.pdt))
        /\ ~FGt(ts.dt, FDiv(ts.Cmax, ts.idtmax))
        /\ ~FGt(ts.dt, ts.dtmax)

\* C10 witness: a call on an all-zero velocity field that follows a call cut
\* to the Courant step
C10_Witness ==
    /\ ts.calls >= 2
    /\ FEq(ts.idtmax, FInt(0))
    /\ FLt(ts.pdt, FInt(1))
    /\ FEq(ts.dt, FMul(GrowthFactor, ts.pdt))

---------------------------------------------------------------------------
(* Claim on the maximum inverse time step: C11 *)

\* the axis and the range of velocity component comp (0 = x, 1 = y, 2 = z)
ComponentAxis(f, comp) == <<f.dsx, f.dsy, f.dsz>>[comp + 1]

ComponentRange(f, comp) == <<f.cx, f.cy, f.cz>>[comp + 1]

ComponentVelocity(gv, comp) == <<gv.gvx, gv.gvy, gv.gvz>>[comp + 1]

\* |v|/h of velocity v at the point of index ijk along its own axis d, h the
\* width of the cell the velocity points away from on variable spacing and
\* the uniform step otherwise
AbsInvStep(d, v, ijk) ==
    IF FLt(d.h_uni, FInt(0)) THEN FAbs(InvStep(d, v, ijk))
    ELSE FDiv(FAbs(v), d.h_uni)

\* |v|/h at every owned velocity point of the three components
AllInvSteps(f, gv) ==
    UNION {{AbsInvStep(ComponentAxis(f, comp),
                       ComponentVelocity(gv, comp)[pt],
                       pt[comp + 1] - <<ComponentRange(f, comp).sx,
                                        ComponentRange(f, comp).sy,
                                        ComponentRange(f, comp).sz>>[comp + 1]) :
               pt \in Owned(ComponentRange(f, comp))} : comp \in 0..2}

\* C11: the maximum inverse time step of a call of JacResGetCourantStep is
\* the largest |v|/h over the owned velocity points of the three components,
\* on uniform and non-uniform axes and for velocities of either sign.
C11_MaxInverseStep ==
    ts.calls >= 1 => FEq(ts.idtmax, MaxOf(AllInvSteps(ts.fs, ts.gv)))

---------------------------------------------------------------------------
(* PetscScalar arithmetic with rounding: a binary floating-point format of   *)
(* FloatBits significant bits, every operation rounded to nearest, ties to   *)
(* even (the format of a double with a shorter significand; the exponent     *)
(* range is not bounded)                                                     *)

\* number of significant bits of the format
FloatBits == 5

RECURSIVE Pow2(_)
Pow2(k) == IF k <= 0 THEN 1 ELSE 2 * Pow2(k - 1)

\* the integer nearest to n/d (n >= 0, d > 0), ties to even
RoundInt(n, d) ==
    IF 2 * (n % d) < d THEN n \div d
    ELSE IF 2 * (n % d) > d THEN (n \div d) + 1
    ELSE IF (n \div d) % 2 = 0 THEN n \div d
    ELSE (n \div d) + 1

RECURSIVE RoundPos(_, _)
\* n/d > 0 rounded to FloatBits significant bits
RoundPos(n, d) ==
    IF n >= d * Pow2(FloatBits) THEN FMul(FInt(2), RoundPos(n, 2 * d))
    ELSE IF n < d * Pow2(FloatBits - 1) THEN FDiv(RoundPos(2 * n, d), FInt(2))
    ELSE FInt(RoundInt(n, d))

\* the value a PetscScalar holds after a store of the exact result a
Round(a) ==
    IF ~IsFinite(a) \/ a.n = 0 THEN a
    ELSE IF a.n < 0 THEN FNeg(RoundPos(-a.n, a.d))
    ELSE RoundPos(a.n, a.d)

RAdd(a, b) == Round(FAdd(a, b))

RSub(a, b) == Round(FSub(a, b))

RMul(a, b) == Round(FMul(a, b))

RDiv(a, b) == Round(FDiv(a, b))

---------------------------------------------------------------------------
(* JacResGetEffStrainRate and JacResGetVorticity on the process of a        *)
(* sequential run                                                           *)

\* GET_CELL_RANGE(n, s, ds) and GET_NODE_RANGE(n, s, ds)
GET_CELL_RANGE(d) == [s |-> d.pstart, n |-> d.ncels]

GET_NODE_RANGE(d) == [s |-> d.pstart, n |-> d.nnods]

\* distance of the centers of cells i-1 and i on a process whose first cell
\* is s
SIZE_NODE(i, s, d) == FSub(d.ccoor[i - s], d.ccoor[i - s - 1])

\* the axes of the grid as a tuple, and the point next to pt along axis ax
AxisOf(f, ax) == <<f.dsx, f.dsy, f.dsz>>[ax]

Shift(pt, ax, by) == [pt EXCEPT ![ax] = @ + by]

\* the loop ranges of the centers and of the three edge types
CenterRange(f) ==
    LoopRange(GET_CELL_RANGE(f.dsx), GET_CELL_RANGE(f.dsy), GET_CELL_RANGE(f.dsz))

XYEdgeRange(f) ==
    LoopRange(GET_NODE_RANGE(f.dsx), GET_NODE_RANGE(f.dsy), GET_CELL_RANGE(f.dsz))

XZEdgeRange(f) ==
    LoopRange(GET_NODE_RANGE(f.dsx), GET_CELL_RANGE(f.dsy), GET_NODE_RANGE(f.dsz))

YZEdgeRange(f) ==
    LoopRange(GET_CELL_RANGE(f.dsx), GET_NODE_RANGE(f.dsy), GET_NODE_RANGE(f.dsz))

\* the ranges of the three face types
XFaceRange(f) ==
    LoopRange(GET_NODE_RANGE(f.dsx), GET_CELL_RANGE(f.dsy), GET_CELL_RANGE(f.dsz))

YFaceRange(f) ==
    LoopRange(GET_CELL_RANGE(f.dsx), GET_NODE_RANGE(f.dsy), GET_CELL_RANGE(f.dsz))

ZFaceRange(f) ==
    LoopRange(GET_CELL_RANGE(f.dsx), GET_CELL_RANGE(f.dsy), GET_NODE_RANGE(f.dsz))

\* lines 428-430: (v[+1] - v[0])/dx at a center, v the velocity along ax
CellGradient(f, v, pt, ax) ==
    RDiv(RSub(v[Shift(pt, ax, 1)], v[pt]),
         Round(SIZE_CELL(pt[ax], AxisOf(f, ax).pstart, AxisOf(f, ax))))

\* line 433
VolumetricRate(xx, yy, zz) == RAdd(RAdd(xx, yy), zz)

\* a trace removal that takes half of theta
TraceShare_Half(theta) == RDiv(theta, FInt(2))

\* line 438: tr = theta/3.0
TraceShare(theta) == RDiv(theta, FInt(3))

\* lines 433-446: what the loop stores in svCell and svBulk
CellRates(sv, xx, yy, zz, theta) ==
    [sv EXCEPT !.theta = theta,
               !.dxx = RSub(xx, TraceShare(theta)),
               !.dyy = RSub(yy, TraceShare(theta)),
               !.dzz = RSub(zz, TraceShare(theta))]

\* lines 418-446 at center pt
CellStrainRate(f, sv, vx, vy, vz, pt) ==
    CellRates(sv, CellGradient(f, vx, pt, 1), CellGradient(f, vy, pt, 2),
              CellGradient(f, vz, pt, 3),
              VolumetricRate(CellGradient(f, vx, pt, 1),
                             CellGradient(f, vy, pt, 2),
                             CellGradient(f, vz, pt, 3)))

\* lines 449-451: an effective deviatoric strain rate
EffectiveRate(d, h, I2Gdt) == RAdd(d, RMul(h, I2Gdt))

\* (v[0] - v[-1])/d along ax at an edge
NodeGradient(f, v, pt, ax) ==
    RDiv(RSub(v[pt], v[Shift(pt, ax, -1)]),
         Round(SIZE_NODE(pt[ax], AxisOf(f, ax).pstart, AxisOf(f, ax))))

\* lines 476-481, 508-513, 540-545: the total strain rate at an edge of the
\* plane of axes a and b, va and vb the velocities along them
EdgeStrainRate(f, va, vb, pt, a, b) ==
    RMul(Rat(1, 2), RAdd(NodeGradient(f, va, pt, b), NodeGradient(f, vb, pt, a)))

\* the solution variables of the points of range c after a loop that stores
\* rate(pt) at point pt, in the order of the loop
CellLoop(f, sv, c, vx, vy, vz) ==
    [it \in DOMAIN sv |->
        CellStrainRate(f, sv[it], vx, vy, vz, LoopPoint(c, it + 1))]

EdgeLoop(f, sv, c, va, vb, a, b) ==
    [it \in DOMAIN sv |->
        [sv[it] EXCEPT !.d = EdgeStrainRate(f, va, vb, LoopPoint(c, it + 1), a, b)]]

\* the array of range c that holds the effective rates of the owned points
EffectiveCell(sv, c, l, comp) ==
    [pt \in DOMAIN l |->
        IF pt \in Owned(c)
        THEN EffectiveRate(sv[START_STD_LOOP(c, pt)][comp],
                           sv[START_STD_LOOP(c, pt)][<<"hxx", "hyy", "hzz">>[
                               IF comp = "dxx" THEN 1
                               ELSE IF comp = "dyy" THEN 2 ELSE 3]],
                           sv[START_STD_LOOP(c, pt)].I2Gdt)
        ELSE l[pt]]

EffectiveEdge(sv, c, l) ==
    [pt \in DOMAIN l |->
        IF pt \in Owned(c)
        THEN EffectiveRate(sv[START_STD_LOOP(c, pt)].d,
                           sv[START_STD_LOOP(c, pt)].h,
                           sv[START_STD_LOOP(c, pt)].I2Gdt)
        ELSE l[pt]]

\* the solution variables after the four loops of JacResGetEffStrainRate
StrainVariables(j) ==
    [j EXCEPT
        !.svCell   = CellLoop(j.fs, @, CenterRange(j.fs), j.lvx, j.lvy, j.lvz),
        !.svXYEdge = EdgeLoop(j.fs, @, XYEdgeRange(j.fs), j.lvx, j.lvy, 1, 2),
        !.svXZEdge = EdgeLoop(j.fs, @, XZEdgeRange(j.fs), j.lvx, j.lvz, 1, 3),
        !.svYZEdge = EdgeLoop(j.fs, @, YZEdgeRange(j.fs), j.lvy, j.lvz, 2, 3)]

\* the six strain-rate arrays, from the solution variables
StrainArrays(j) ==
    [j EXCEPT
        !.ldxx = EffectiveCell(j.svCell, CenterRange(j.fs), @, "dxx"),
        !.ldyy = EffectiveCell(j.svCell, CenterRange(j.fs), @, "dyy"),
        !.ldzz = EffectiveCell(j.svCell, CenterRange(j.fs), @, "dzz"),
        !.ldxy = EffectiveEdge(j.svXYEdge, XYEdgeRange(j.fs), @),
        !.ldxz = EffectiveEdge(j.svXZEdge, XZEdgeRange(j.fs), @),
        !.ldyz = EffectiveEdge(j.svYZEdge, YZEdgeRange(j.fs), @)]

\* the solution variables computed, the six arrays left as they were
JacResGetEffStrainRate_NoArrays(j) == StrainVariables(j)

\* JacResGetEffStrainRate(jr); the exchanges at its end move nothing on one
\* process
JacResGetEffStrainRate(j) == StrainArrays(StrainVariables(j))

\* a rotation rate that adds the two gradients
EdgeVorticity_Sum(f, vplus, vminus, pt, aplus, aminus) ==
    RAdd(NodeGradient(f, vplus, pt, aplus), NodeGradient(f, vminus, pt, aminus))

\* lines 613-617, 631-635, 649-653: the rotation rate at an edge, first the
\* gradient taken with the positive sign
EdgeVorticity(f, vplus, vminus, pt, aplus, aminus) ==
    RSub(NodeGradient(f, vplus, pt, aplus), NodeGradient(f, vminus, pt, aminus))

VorticityLoop(f, c, l, vplus, vminus, aplus, aminus) ==
    [pt \in DOMAIN l |->
        IF pt \in Owned(c) THEN EdgeVorticity(f, vplus, vminus, pt, aplus, aminus)
        ELSE l[pt]]

\* JacResGetVorticity(jr): gwz in ldxy, gwy in ldxz, gwx in ldyz
JacResGetVorticity(j) ==
    [j EXCEPT
        !.ldxy = VorticityLoop(j.fs, XYEdgeRange(j.fs), @, j.lvy, j.lvx, 1, 2),
        !.ldxz = VorticityLoop(j.fs, XZEdgeRange(j.fs), @, j.lvx, j.lvz, 3, 1),
        !.ldyz = VorticityLoop(j.fs, YZEdgeRange(j.fs), @, j.lvz, j.lvy, 2, 3)]

---------------------------------------------------------------------------
(* The strain-rate state machine *)

\* the segment tables of the axes: two cells of size 1, a cell of size 1
\* followed by a cell of size 2, one cell of size 1
StrainMesh(kind) ==
    IF kind = "uniform"
    THEN MeshSeg1DCreate(FInt(0), FInt(2), 2,
                         [nsegs |-> 1, ncells |-> (0 :> 2), delims |-> <<>>,
                          biases |-> (0 :> FInt(1))])
    ELSE IF kind = "stretched"
    THEN MeshSeg1DCreate(FInt(0), FInt(3), 2,
                         [nsegs |-> 2, ncells |-> (0 :> 1 @@ 1 :> 1),
                          delims |-> (0 :> FInt(1)),
                          biases |-> (0 :> FInt(1) @@ 1 :> FInt(1))])
    ELSE MeshSeg1DCreate(FInt(0), FInt(1), 1,
                         [nsegs |-> 1, ncells |-> (0 :> 1), delims |-> <<>>,
                          biases |-> (0 :> FInt(1))])

StrainCells(kind) == IF kind = "single" THEN 1 ELSE 2

\* the axis of a sequential run over the segment table of the given kind
StrainAxis(kind) ==
    SizedAxis(Discret1DGenCoord(
                  [pc |-> "created"]
                  @@ Discret1DCreate(1, 0, (0 :> (StrainCells(kind) + 1)), 0, -1, -1),
                  StrainMesh(kind)),
              StrainMesh(kind))

\* the grids: 2 x 2 x 1 cells, the x axis uniform or not
StrainFDSTAG ==
    {[dsx |-> StrainAxis(kx), dsy |-> StrainAxis("uniform"),
      dsz |-> StrainAxis("single")] : kx \in {"uniform", "stretched"}}

\* the coordinate along ax of point pt of the faces normal to axis comp
FaceCoord(f, comp, pt, ax) ==
    IF ax = comp
    THEN AxisOf(f, ax).ncoor[pt[ax] - AxisOf(f, ax).pstart]
    ELSE AxisOf(f, ax).ccoor[pt[ax] - AxisOf(f, ax).pstart]

\* the two axes of the plane normal to axis r, in right-handed order
PlaneA(r) == (r % 3) + 1

PlaneB(r) == ((r + 1) % 3) + 1

\* the rates of rotation and of shear, and the velocities of a moving face
Rates == {FInt(1), Rat(17, 16)}

BumpSpeeds == {FInt(1), FInt(3)}

\* the velocity fields: a rigid rotation about axis r, a pure shear in the
\* plane normal to r, or one face of component r moving
Fields(f) ==
    {[kind |-> kd, axis |-> r, rate |-> w, at |-> <<0, 0, 0>>] :
        kd \in {"rotation", "shear"}, r \in 1..3, w \in Rates}
    \cup UNION {{[kind |-> "bump", axis |-> r, rate |-> w, at |-> pt] :
                    pt \in Owned(<<XFaceRange(f), YFaceRange(f), ZFaceRange(f)>>[r]),
                    w \in BumpSpeeds} : r \in 1..3}

\* the value of velocity component comp of field F stored at face pt
Sample(f, F, comp, pt) ==
    IF F.kind = "bump"
    THEN (IF comp = F.axis /\ pt = F.at THEN F.rate ELSE FInt(0))
    ELSE IF comp = PlaneA(F.axis)
    THEN (IF F.kind = "rotation"
          THEN FNeg(RMul(F.rate, FaceCoord(f, comp, pt, PlaneB(F.axis))))
          ELSE RMul(F.rate, FaceCoord(f, comp, pt, PlaneB(F.axis))))
    ELSE IF comp = PlaneB(F.axis)
    THEN RMul(F.rate, FaceCoord(f, comp, pt, PlaneA(F.axis)))
    ELSE FInt(0)

\* the local (ghosted) vector of component comp
LocalVelocity(f, F, comp, c) == [pt \in Ghosted(c) |-> Sample(f, F, comp, pt)]

\* the solution variables of a center and of an edge before the first call
NewSolVarCell ==
    [theta |-> FInt(0), dxx |-> FInt(0), dyy |-> FInt(0), dzz |-> FInt(0),
     hxx |-> FInt(1), hyy |-> FInt(-1), hzz |-> FInt(0), I2Gdt |-> Rat(1, 2)]

NewSolVarEdge == [d |-> FInt(0), h |-> FInt(1), I2Gdt |-> Rat(1, 2)]

ZeroArray(S) == [pt \in S |-> FInt(0)]

\* the JacRes of the strain-rate machine, velocities in place
StrainJacRes(f, F) ==
    [fs |-> f, field |-> F, strained |-> FALSE, last |-> "none",
     lvx |-> LocalVelocity(f, F, 1, XFaceRange(f)),
     lvy |-> LocalVelocity(f, F, 2, YFaceRange(f)),
     lvz |-> LocalVelocity(f, F, 3, ZFaceRange(f)),
     svCell   |-> [it \in 0..(CornerCount(CenterRange(f)) - 1) |-> NewSolVarCell],
     svXYEdge |-> [it \in 0..(CornerCount(XYEdgeRange(f)) - 1) |-> NewSolVarEdge],
     svXZEdge |-> [it \in 0..(CornerCount(XZEdgeRange(f)) - 1) |-> NewSolVarEdge],
     svYZEdge |-> [it \in 0..(CornerCount(YZEdgeRange(f)) - 1) |-> NewSolVarEdge],
     ldxx |-> ZeroArray(Ghosted(CenterRange(f))),
     ldyy |-> ZeroArray(Ghosted(CenterRange(f))),
     ldzz |-> ZeroArray(Ghosted(CenterRange(f))),
     ldxy |-> ZeroArray(Owned(XYEdgeRange(f))),
     ldxz |-> ZeroArray(Owned(XZEdgeRange(f))),
     ldyz |-> ZeroArray(Owned(YZEdgeRange(f)))]

InitStrain ==
    /\ \E f \in StrainFDSTAG : \E F \in Fields(f) : jr = StrainJacRes(f, F)
    /\ AxisIdle /\ SegIdle /\ GridIdle /\ CourantIdle

\* JacResGetEffStrainRate(jr)
GetEffStrainRate ==
    /\ jr.last # "strain"
    /\ jr' = [JacResGetEffStrainRate(jr) EXCEPT !.strained = TRUE,
                                                !.last = "strain"]
    /\ UNCHANGED <<axisVars, segVars, gridVars, courantVars>>

\* JacResGetVorticity(jr)
GetVorticity ==
    /\ jr.last # "vort"
    /\ jr' = [JacResGetVorticity(jr) EXCEPT !.last = "vort"]
    /\ UNCHANGED <<axisVars, segVars, gridVars, courantVars>>

NextStrain ==
    \/ GetEffStrainRate
    \/ GetVorticity

SpecStrain == InitStrain /\ [][NextStrain]_vars

---------------------------------------------------------------------------
(* Claims on the strain rates: C12 and C13 *)

\* the centers of the grid, by their position in svCell
CellIters == DOMAIN jr.svCell

\* the exact sum of the three stored deviatoric components of a center
TraceOf(sv) == FAdd(FAdd(sv.dxx, sv.dyy), sv.dzz)

\* the three first-difference velocity gradients at center pt, as the
\* quotient of two PetscScalar values
FirstDifference(v, pt, ax) ==
    RDiv(RSub(v[Shift(pt, ax, 1)], v[pt]),
         RSub(AxisOf(jr.fs, ax).ncoor[pt[ax] - AxisOf(jr.fs, ax).pstart + 1],
              AxisOf(jr.fs, ax).ncoor[pt[ax] - AxisOf(jr.fs, ax).pstart]))

GradientSum(pt) ==
    RAdd(RAdd(FirstDifference(jr.lvx, pt, 1), FirstDifference(jr.lvy, pt, 2)),
         FirstDifference(jr.lvz, pt, 3))

GradientSize(pt) ==
    FAdd(FAdd(FAbs(FirstDifference(jr.lvx, pt, 1)),
              FAbs(FirstDifference(jr.lvy, pt, 2))),
         FAbs(FirstDifference(jr.lvz, pt, 3)))

EdgeVariables(r) == <<jr.svYZEdge, jr.svXZEdge, jr.svXYEdge>>[r]

EdgeArray(r) == <<jr.ldyz, jr.ldxz, jr.ldxy>>[r]

\* no total strain rate at the centers
CentersAtRest ==
    \A it \in CellIters :
        /\ FEq(jr.svCell[it].dxx, FInt(0))
        /\ FEq(jr.svCell[it].dyy, FInt(0))
        /\ FEq(jr.svCell[it].dzz, FInt(0))

\* no total strain rate, no vorticity, at the edges of the planes that hold
\* axis r
OtherEdgesAtRest(r) ==
    \A q \in (1..3) \ {r} : \A it \in DOMAIN EdgeVariables(q) :
        FEq(EdgeVariables(q)[it].d, FInt(0))

OtherEdgesStill(r) ==
    \A q \in (1..3) \ {r} : \A pt \in DOMAIN EdgeArray(q) :
        FEq(EdgeArray(q)[pt], FInt(0))

\* C13 as stated: for a rigid rotation at rate w the total strain rate is
\* zero at every center and every edge and the vorticity is 2w at the edges
\* of the plane of the rotation and 0 at the others; for a pure shear the
\* vorticity is 0 at every edge.
C13_RotationExact ==
    /\ (jr.field.kind = "rotation" /\ jr.strained) =>
          /\ CentersAtRest
          /\ \A q \in 1..3 : \A it \in DOMAIN EdgeVariables(q) :
                FEq(EdgeVariables(q)[it].d, FInt(0))
    /\ (jr.field.kind = "rotation" /\ jr.last = "vort") =>
          /\ \A pt \in DOMAIN EdgeArray(jr.field.axis) :
                FEq(EdgeArray(jr.field.axis)[pt], FMul(FInt(2), jr.field.rate))
          /\ OtherEdgesStill(jr.field.axis)
    /\ (jr.field.kind = "shear" /\ jr.last = "vort") =>
          \A q \in 1..3 : \A pt \in DOMAIN EdgeArray(q) :
              FEq(EdgeArray(q)[pt], FInt(0))

\* the rounding error of the gradient along ax at edge pt of a velocity that
\* grows at unit rate along ax, in units of 2^-FloatBits: the two samples
\* and their difference are rounded, then the quotient
GradientError(ax, pt) ==
    FAdd(FDiv(FAdd(FAbs(AxisOf(jr.fs, ax).ccoor[pt[ax] - AxisOf(jr.fs, ax).pstart]),
                   FAbs(AxisOf(jr.fs, ax).ccoor[pt[ax] - AxisOf(jr.fs, ax).pstart - 1])),
              SIZE_NODE(pt[ax], AxisOf(jr.fs, ax).pstart, AxisOf(jr.fs, ax))),
         FInt(3))

\* the rounding error of the sum or difference of the two gradients at edge
\* pt of the plane normal to axis r, for the rate of the field
EdgeError(r, pt) ==
    FMul(FMul(Rat(1, Pow2(FloatBits)), FAbs(jr.field.rate)),
         FAdd(GradientError(PlaneA(r), pt), GradientError(PlaneB(r), pt)))

EdgePoint(r, it) ==
    LoopPoint(<<YZEdgeRange(jr.fs), XZEdgeRange(jr.fs), XYEdgeRange(jr.fs)>>[r],
              it + 1)

\* C13 amended: for a rigid rotation at rate w the total strain rate is zero
\* at every center and at the edges of the two planes that hold the axis of
\* rotation, and zero within the rounding error of the two gradients at the
\* edges of the plane of the rotation, where the vorticity is 2w within the
\* same error and 0 at the other edges; for a pure shear the vorticity is 0
\* within that error at the edges of the plane of the shear and 0 elsewhere.
C13_RotationUpToRounding ==
    /\ (jr.field.kind = "rotation" /\ jr.strained) =>
          /\ CentersAtRest
          /\ OtherEdgesAtRest(jr.field.axis)
          /\ \A it \in DOMAIN EdgeVariables(jr.field.axis) :
                ~FGt(FAbs(EdgeVariables(jr.field.axis)[it].d),
                     EdgeError(jr.field.axis, EdgePoint(jr.field.axis, it)))
    /\ (jr.field.kind = "rotation" /\ jr.last = "vort") =>
          /\ \A pt \in DOMAIN EdgeArray(jr.field.axis) :
                ~FGt(FAbs(FSub(EdgeArray(jr.field.axis)[pt],
                               FMul(FInt(2), jr.field.rate))),
                     EdgeError(jr.field.axis, pt))
          /\ OtherEdgesStill(jr.field.axis)
    /\ (jr.field.kind = "shear" /\ jr.last = "vort") =>
          /\ \A pt \in DOMAIN EdgeArray(jr.field.axis) :
                ~FGt(FAbs(EdgeArray(jr.field.axis)[pt]),
                     EdgeError(jr.field.axis, pt))
          /\ OtherEdgesStill(jr.field.axis)

\* C13 witness: strain rates and vorticity of a rigid rotation whose sampled
\* velocities were rounded, the strain rate of an edge not zero
C13_Witness ==
    /\ jr.field.kind = "rotation"
    /\ jr.strained
    /\ jr.last = "vort"
    /\ \E it \in DOMAIN EdgeVariables(jr.field.axis) :
          ~FEq(EdgeVariables(jr.field.axis)[it].d, FInt(0))
    /\ \E pt \in DOMAIN EdgeArray(jr.field.axis) :
          ~FEq(EdgeArray(jr.field.axis)[pt], FInt(0))

---------------------------------------------------------------------------
(* JacResGetResidual on the process of a sequential run. The residual is    *)
(* assembled in exact arithmetic; svDev->DII is kept as its square J2Inv.   *)
(* The constitutive routines are outside the modelled sources: a call       *)
(* returns the error code of the run at call number failAt and 0 at every   *)
(* other call, and on success stores a linear viscous stress 2*eta*d and    *)
(* the bulk properties of the run.                                          *)

Sq(a) == FMul(a, a)

SetAt(pt, ax, v) == [pt EXCEPT ![ax] = v]

\* the names of the face arrays and of the edge data by axis
ForceName(ax) == <<"lfx", "lfy", "lfz">>[ax]

VelocityName(ax) == <<"lvx", "lvy", "lvz">>[ax]

EdgeName(r) == <<"svYZEdge", "svXZEdge", "svXYEdge">>[r]

EdgeRateName(r) == <<"ldyz", "ldxz", "ldxy">>[r]

EdgeRange(f, r) == <<YZEdgeRange(f), XZEdgeRange(f), XYEdgeRange(f)>>[r]

\* the two axes of the plane of the edges normal to axis r, lower axis first
EdgeA(r) == IF r = 1 THEN 2 ELSE 1

EdgeB(r) == IF r = 3 THEN 2 ELSE 3

\* lines 731-733 and 911-914: the index bounds of the edge loops
ClampHigh(i, d) == IF i = d.tnods - 1 THEN i - 1 ELSE i

\* lines 894 and 896: the lower neighbour of index i, bounded
ClampLow(i) == IF i - 1 = -1 THEN i ELSE i - 1

\* a call of a constitutive routine: its return code
ConstitutiveCall(j) ==
    [j EXCEPT !.ncalls = @ + 1,
              !.ierr = IF j.ncalls + 1 = j.failAt THEN j.code ELSE 0]

\* the squares of the four samples of array l around pt in the plane (a, b)
FourSquares(l, pt, a, b) ==
    FAdd(FAdd(Sq(l[pt]), Sq(l[Shift(pt, b, 1)])),
         FAdd(Sq(l[Shift(pt, a, 1)]), Sq(l[Shift(Shift(pt, a, 1), b, 1)])))

\* lines 771-798: J2Inv at center pt
CenterJ2Inv(j, pt) ==
    FAdd(FAdd(FMul(Rat(1, 2),
                   FAdd(FAdd(Sq(j.ldxx[pt]), Sq(j.ldyy[pt])), Sq(j.ldzz[pt]))),
              FMul(Rat(1, 4), FourSquares(j.ldxy, pt, 1, 2))),
         FAdd(FMul(Rat(1, 4), FourSquares(j.ldxz, pt, 1, 3)),
              FMul(Rat(1, 4), FourSquares(j.ldyz, pt, 2, 3))))

\* the four samples taken at the neighbour indices as they are, not bounded
BoundedSquares_Unbounded(f, l, pt, a, b) ==
    FAdd(FAdd(Sq(l[pt]), Sq(l[Shift(pt, a, -1)])),
         FAdd(Sq(l[Shift(pt, b, -1)]), Sq(l[Shift(Shift(pt, a, -1), b, -1)])))

\* lines 893-896 and 916-930: the squares of the four samples of the center
\* array l next to the edge pt of the plane (a, b), indices bounded along a
\* and b
BoundedSquares(f, l, pt, a, b) ==
    FAdd(FAdd(Sq(l[SetAt(SetAt(pt, a, ClampHigh(pt[a], AxisOf(f, a))),
                         b, ClampHigh(pt[b], AxisOf(f, b)))]),
              Sq(l[SetAt(SetAt(pt, a, ClampLow(pt[a])),
                         b, ClampHigh(pt[b], AxisOf(f, b)))])),
         FAdd(Sq(l[SetAt(SetAt(pt, a, ClampHigh(pt[a], AxisOf(f, a))),
                         b, ClampLow(pt[b]))]),
              Sq(l[SetAt(SetAt(pt, a, ClampLow(pt[a])), b, ClampLow(pt[b]))])))

\* the squares of the four samples of the edge array l next to edge pt:
\* index bounded along axis bd, the two nodes pt[c] and pt[c]+1 along c
HalfBoundedSquares(f, l, pt, bd, c) ==
    FAdd(FAdd(Sq(l[SetAt(pt, bd, ClampHigh(pt[bd], AxisOf(f, bd)))]),
              Sq(l[Shift(SetAt(pt, bd, ClampHigh(pt[bd], AxisOf(f, bd))), c, 1)])),
         FAdd(Sq(l[SetAt(pt, bd, ClampLow(pt[bd]))]),
              Sq(l[Shift(SetAt(pt, bd, ClampLow(pt[bd])), c, 1)])))

\* lines 916-954, 1000-1038, 1084-1122: J2Inv at edge pt of the edges normal
\* to axis r
EdgeJ2Inv(j, pt, r) ==
    FAdd(FAdd(Sq(j[EdgeRateName(r)][pt]),
              FMul(Rat(1, 8),
                   FAdd(FAdd(BoundedSquares(j.fs, j.ldxx, pt, EdgeA(r), EdgeB(r)),
                             BoundedSquares(j.fs, j.ldyy, pt, EdgeA(r), EdgeB(r))),
                        BoundedSquares(j.fs, j.ldzz, pt, EdgeA(r), EdgeB(r))))),
         FAdd(FMul(Rat(1, 4),
                   HalfBoundedSquares(j.fs, j[EdgeRateName(EdgeB(r))], pt, EdgeB(r), r)),
              FMul(Rat(1, 4),
                   HalfBoundedSquares(j.fs, j[EdgeRateName(EdgeA(r))], pt, EdgeA(r), r))))

\* DevConstEq, GetStressCell and VolConstEq on success
DevConstEq(sv, j) == [sv EXCEPT !.eta_creep = j.eta]

GetStressCell(sv, XX, YY, ZZ) ==
    [sv EXCEPT !.sxx = FMul(FMul(FInt(2), sv.eta_creep), XX),
               !.syy = FMul(FMul(FInt(2), sv.eta_creep), YY),
               !.szz = FMul(FMul(FInt(2), sv.eta_creep), ZZ)]

GetStressEdge(sv, d) == [sv EXCEPT !.s = FMul(FMul(FInt(2), sv.eta_creep), d)]

VolConstEq(sv, j) ==
    [sv EXCEPT !.rho = j.rho, !.IKdt = j.IKdt, !.alpha = j.alpha,
               !.pn = j.pn, !.Tn = j.Tn]

\* lines 852-860 along axis ax: the two stores to the faces of cell pt, stot
\* the total stress, g the gravity term, t the stabilization term
FaceStores(f, lf, v, pt, ax, stot, g, t) ==
    [[lf EXCEPT ![pt] =
          FSub(@, FAdd(FDiv(FAdd(stot, FMul(v[pt], t)),
                            SIZE_NODE(pt[ax], AxisOf(f, ax).pstart, AxisOf(f, ax))),
                       FDiv(g, FInt(2))))]
        EXCEPT ![Shift(pt, ax, 1)] =
          FAdd(@, FSub(FDiv(FAdd(stot, FMul(v[Shift(pt, ax, 1)], t)),
                            SIZE_NODE(pt[ax] + 1, AxisOf(f, ax).pstart,
                                      AxisOf(f, ax))),
                       FDiv(g, FInt(2))))]

\* the stress component along ax of the solution variables of a cell
NormalStress(sv, ax) == <<sv.sxx, sv.syy, sv.szz>>[ax]

\* the momentum residual of a cell with the pressure left out of the
\* normal stress
CellMomentum_NoPressure(j, pt, it, ax) ==
    [j EXCEPT ![ForceName(ax)] =
        FaceStores(j.fs, @, j[VelocityName(ax)], pt, ax,
                   NormalStress(j.svCell[it], ax),
                   FMul(j.svCell[it].rho, j.grav[ax]),
                   FMul(FMul(j.FSSA, j.dt),
                        FMul(j.svCell[it].rho, j.grav[ax])))]

\* lines 839-860 along axis ax
CellMomentum(j, pt, it, ax) ==
    [j EXCEPT ![ForceName(ax)] =
        FaceStores(j.fs, @, j[VelocityName(ax)], pt, ax,
                   FSub(NormalStress(j.svCell[it], ax), j.lp[pt]),
                   FMul(j.svCell[it].rho, j.grav[ax]),
                   FMul(FMul(j.FSSA, j.dt),
                        FMul(j.svCell[it].rho, j.grav[ax])))]

\* line 870
CellMass(j, pt, it) ==
    [j EXCEPT !.gc[pt] =
        FAdd(FSub(FMul(FNeg(j.svCell[it].IKdt), FSub(j.lp[pt], j.svCell[it].pn)),
                  j.svCell[it].theta),
             FDiv(FMul(j.svCell[it].alpha, FSub(j.lT[pt], j.svCell[it].Tn)),
                  j.dt))]

\* lines 825-870: the residual of cell pt once VolConstEq has returned
CellResidual(j, pt, it) ==
    CellMass(CellMomentum(CellMomentum(CellMomentum(j, pt, it, 1), pt, it, 2),
                          pt, it, 3), pt, it)

\* lines 814-870, by the constitutive call that returned last
AfterVolConstEq(j, pt, it) ==
    IF j.ierr # 0 THEN j
    ELSE CellResidual([j EXCEPT !.svCell[it] = VolConstEq(@, j)], pt, it)

AfterGetStressCell(j, pt, it) ==
    IF j.ierr # 0 THEN j
    ELSE AfterVolConstEq(
            ConstitutiveCall(
                [j EXCEPT !.svCell[it] =
                    GetStressCell(@, j.ldxx[pt], j.ldyy[pt], j.ldzz[pt])]),
            pt, it)

AfterDevConstEqCell(j, pt, it) ==
    IF j.ierr # 0 THEN j
    ELSE AfterGetStressCell(
            ConstitutiveCall([j EXCEPT !.svCell[it] = DevConstEq(@, j)]), pt, it)

\* lines 762-872: one pass of the loop over the centers
CenterPoint(j, pt, it) ==
    AfterDevConstEqCell(
        ConstitutiveCall([j EXCEPT !.svCell[it].DII2 = CenterJ2Inv(j, pt)]),
        pt, it)

\* lines 979-982, 1063-1066, 1147-1150: the four stores of edge pt
EdgeStores(j, pt, r, sv) ==
    [j EXCEPT
        ![ForceName(EdgeA(r))] =
            [[@ EXCEPT ![Shift(pt, EdgeB(r), -1)] =
                  FSub(@, FDiv(sv.s, SIZE_CELL(pt[EdgeB(r)] - 1,
                                               AxisOf(j.fs, EdgeB(r)).pstart,
                                               AxisOf(j.fs, EdgeB(r)))))]
                EXCEPT ![pt] =
                  FAdd(@, FDiv(sv.s, SIZE_CELL(pt[EdgeB(r)],
                                               AxisOf(j.fs, EdgeB(r)).pstart,
                                               AxisOf(j.fs, EdgeB(r)))))],
        ![ForceName(EdgeB(r))] =
            [[@ EXCEPT ![Shift(pt, EdgeA(r), -1)] =
                  FSub(@, FDiv(sv.s, SIZE_CELL(pt[EdgeA(r)] - 1,
                                               AxisOf(j.fs, EdgeA(r)).pstart,
                                               AxisOf(j.fs, EdgeA(r)))))]
                EXCEPT ![pt] =
                  FAdd(@, FDiv(sv.s, SIZE_CELL(pt[EdgeA(r)],
                                               AxisOf(j.fs, EdgeA(r)).pstart,
                                               AxisOf(j.fs, EdgeA(r)))))]]

AfterGetStressEdge(j, pt, it, r) ==
    IF j.ierr # 0 THEN j ELSE EdgeStores(j, pt, r, j[EdgeName(r)][it])

AfterDevConstEqEdge(j, pt, it, r) ==
    IF j.ierr # 0 THEN j
    ELSE AfterGetStressEdge(
            ConstitutiveCall(
                [j EXCEPT ![EdgeName(r)][it] =
                    GetStressEdge(DevConstEq(@, j), j[EdgeRateName(r)][pt])]),
            pt, it, r)

\* one pass of the loop over the edges normal to axis r
EdgePoint2(j, pt, it, r) ==
    AfterDevConstEqEdge(
        ConstitutiveCall([j EXCEPT ![EdgeName(r)][it].DII2 = EdgeJ2Inv(j, pt, r)]),
        pt, it, r)

RECURSIVE CenterLoop(_, _)
\* the loop over the centers from its n-th pass on; a non-zero return code
\* leaves the function
CenterLoop(j, n) ==
    IF n > CornerCount(CenterRange(j.fs)) \/ j.ierr # 0 THEN j
    ELSE CenterLoop(CenterPoint(j, LoopPoint(CenterRange(j.fs), n), n - 1), n + 1)

RECURSIVE EdgeResidualLoop(_, _, _)
EdgeResidualLoop(j, r, n) ==
    IF n > CornerCount(EdgeRange(j.fs, r)) \/ j.ierr # 0 THEN j
    ELSE EdgeResidualLoop(
            EdgePoint2(j, LoopPoint(EdgeRange(j.fs, r), n), n - 1, r), r, n + 1)

\* local residual vectors that keep what the last evaluation left
ClearLocalResidual_Keep(j) == j

\* lines 726-728: VecZeroEntries on the local residual vectors
ClearLocalResidual(j) ==
    [j EXCEPT !.lfx = [pt \in DOMAIN @ |-> FInt(0)],
              !.lfy = [pt \in DOMAIN @ |-> FInt(0)],
              !.lfz = [pt \in DOMAIN @ |-> FInt(0)]]

\* a global vector left as it was
LOCAL_TO_GLOBAL_Skip(c, l, g) == g

\* LOCAL_TO_GLOBAL(da, l, g) on one process: the global vector takes the
\* owned entries of the local vector
LOCAL_TO_GLOBAL(c, l, g) == [pt \in DOMAIN g |-> l[pt]]

\* an assembly that does not look at the return code
AssembleGlobal_Always(j) ==
    [j EXCEPT !.gfx = LOCAL_TO_GLOBAL(XFaceRange(j.fs), j.lfx, @),
              !.gfy = LOCAL_TO_GLOBAL(YFaceRange(j.fs), j.lfy, @),
              !.gfz = LOCAL_TO_GLOBAL(ZFaceRange(j.fs), j.lfz, @)]

\* lines 1199-1201, reached with no error pending
AssembleGlobal(j) ==
    IF j.ierr # 0 THEN j
    ELSE [j EXCEPT !.gfx = LOCAL_TO_GLOBAL(XFaceRange(j.fs), j.lfx, @),
                   !.gfy = LOCAL_TO_GLOBAL(YFaceRange(j.fs), j.lfy, @),
                   !.gfz = LOCAL_TO_GLOBAL(ZFaceRange(j.fs), j.lfz, @)]

\* JacResGetResidual(jr); ierr is what it returns
JacResGetResidual(j) ==
    AssembleGlobal(
        EdgeResidualLoop(
            EdgeResidualLoop(
                EdgeResidualLoop(
                    CenterLoop(ClearLocalResidual([j EXCEPT !.ierr = 0,
                                                            !.ncalls = 0]), 1),
                    3, 1),
                2, 1),
            1, 1))

---------------------------------------------------------------------------
(* The residual state machine *)

\* the number of constitutive calls of one evaluation with no error
CallCount(f) ==
    3 * CornerCount(CenterRange(f))
    + 2 * (CornerCount(XYEdgeRange(f)) + CornerCount(XZEdgeRange(f))
           + CornerCount(YZEdgeRange(f)))

\* the calls that may fail: none (0), the three calls of the first center,
\* a call of a later center, the two calls of the first XY edge, a call of
\* an XZ edge and the last call
FailPoints(f) ==
    {0, 1, 2, 3, 5,
     3 * CornerCount(CenterRange(f)) + 1, 3 * CornerCount(CenterRange(f)) + 2,
     3 * CornerCount(CenterRange(f)) + 2 * CornerCount(XYEdgeRange(f)) + 1,
     CallCount(f)}

\* the velocity fields of the residual machine: at rest, a rigid rotation
\* about z, one x-face moving
ResidualFields ==
    {[kind |-> "bump", axis |-> 1, rate |-> FInt(0), at |-> <<0, 0, 0>>],
     [kind |-> "rotation", axis |-> 3, rate |-> FInt(1), at |-> <<0, 0, 0>>],
     [kind |-> "bump", axis |-> 1, rate |-> FInt(1), at |-> <<1, 0, 0>>]}

\* the pressure fields: uniform, or growing with the cell index along x
Pressures == {"uniform2", "uniform3", "ramp"}

Pressure(kind, pt) ==
    IF kind = "uniform2" THEN FInt(2)
    ELSE IF kind = "uniform3" THEN FInt(3)
    ELSE FInt(1 + pt[1])

\* the viscosities the deviatoric routine returns
Viscosities == {FInt(0), FInt(1)}

\* the JacRes of the residual machine: the strain-rate data and the
\* vectors and parameters JacResGetResidual works on
ResidualJacRes(f, F, pk, eta) ==
    [x \in {"svCell"} |->
        [it \in 0..(CornerCount(CenterRange(f)) - 1) |->
            NewSolVarCell
            @@ [sxx |-> FInt(0), syy |-> FInt(0), szz |-> FInt(0),
                eta_creep |-> FInt(0), DII2 |-> FInt(0), rho |-> FInt(0),
                IKdt |-> FInt(0), alpha |-> FInt(0), pn |-> FInt(0),
                Tn |-> FInt(0)]]]
    @@ [x \in {"svXYEdge", "svXZEdge", "svYZEdge"} |->
        [it \in DOMAIN StrainJacRes(f, F)[x] |->
            NewSolVarEdge
            @@ [s |-> FInt(0), eta_creep |-> FInt(0), DII2 |-> FInt(0)]]]
    @@ StrainJacRes(f, F)
    @@ [pressure |-> pk,
        lp  |-> [pt \in Ghosted(CenterRange(f)) |-> Pressure(pk, pt)],
        lT  |-> [pt \in Ghosted(CenterRange(f)) |-> FInt(5)],
        gc  |-> ZeroArray(Owned(CenterRange(f))),
        lfx |-> ZeroArray(Ghosted(XFaceRange(f))),
        lfy |-> ZeroArray(Ghosted(YFaceRange(f))),
        lfz |-> ZeroArray(Ghosted(ZFaceRange(f))),
        gfx |-> ZeroArray(Owned(XFaceRange(f))),
        gfy |-> ZeroArray(Owned(YFaceRange(f))),
        gfz |-> ZeroArray(Owned(ZFaceRange(f))),
        grav |-> <<FInt(1), FInt(0), FInt(-2)>>, FSSA |-> FInt(1),
        dt |-> Rat(1, 2), pShift |-> FInt(1),
        eta |-> eta, rho |-> FInt(3), IKdt |-> Rat(1, 2), alpha |-> FInt(1),
        pn |-> FInt(1), Tn |-> FInt(5),
        failAt |-> 0, code |-> 73, ncalls |-> 0, ierr |-> 0,
        gprev |-> <<>>]

InitResidual ==
    /\ \E f \in StrainFDSTAG : \E F \in ResidualFields :
       \E pk \in Pressures : \E eta \in Viscosities :
           jr = ResidualJacRes(f, F, pk, eta)
    /\ AxisIdle /\ SegIdle /\ GridIdle /\ CourantIdle

\* JacResGetResidual(jr) after JacResGetEffStrainRate, the constitutive
\* call number failAt failing (none for 0); gprev keeps the global residual
\* vectors of before the call
GetResidual(failAt) ==
    /\ jr.last = "strain"
    /\ jr' = [JacResGetResidual([jr EXCEPT !.failAt = failAt])
                 EXCEPT !.last = "res",
                        !.gprev = <<jr.gfx, jr.gfy, jr.gfz>>]
    /\ UNCHANGED <<axisVars, segVars, gridVars, courantVars>>

NextResidual ==
    \/ GetEffStrainRate
    \/ \E failAt \in FailPoints(jr.fs) : GetResidual(failAt)

SpecResidual == InitResidual /\ [][NextResidual]_vars

---------------------------------------------------------------------------
(* Claims on the residual: C14 and C16 *)

\* the constitutive routines returned no deviatoric stress
NoDeviatoricStress ==
    /\ \A it \in DOMAIN jr.svCell :
          /\ FEq(jr.svCell[it].sxx, FInt(0))
          /\ FEq(jr.svCell[it].syy, FInt(0))
          /\ FEq(jr.svCell[it].szz, FInt(0))
    /\ \A r \in 1..3 : \A it \in DOMAIN jr[EdgeName(r)] :
          FEq(jr[EdgeName(r)][it].s, FInt(0))

\* the scenario of C14: velocity zero, pressure uniform, temperature at its
\* history value, no deviatoric stress, an evaluation that returned 0
AtRestUniform ==
    /\ jr.last = "res"
    /\ jr.ierr = 0
    /\ jr.field.kind = "bump" /\ FEq(jr.field.rate, FInt(0))
    /\ jr.pressure # "ramp"
    /\ \A pt \in DOMAIN jr.gc : FEq(jr.lT[pt], jr.Tn)
    /\ NoDeviatoricStress

GlobalForce(ax) == <<jr.gfx, jr.gfy, jr.gfz>>[ax]

\* the gravity term rho*g/2 a cell adds to each of its two faces along ax
HalfWeight(ax) == FDiv(FMul(jr.rho, jr.grav[ax]), FInt(2))

\* p0 over the distance of the centers of cells i-1 and i along ax
PressureTerm(pt, ax, i) ==
    FDiv(jr.lp[pt], SIZE_NODE(i, AxisOf(jr.fs, ax).pstart, AxisOf(jr.fs, ax)))

\* C14: with zero velocity, uniform pressure p0, temperature at its history
\* value and zero deviatoric stress, the continuity residual is
\* -IKdt*(p0 - pn) at every center; at every interior face the momentum
\* residual is the two gravity terms of the adjacent cells, the pressure
\* contributions cancelling; at a boundary face the pressure term of the one
\* adjacent cell stays.
C14_UniformPressureResidual ==
    AtRestUniform =>
        /\ \A pt \in DOMAIN jr.gc :
              FEq(jr.gc[pt], FMul(FNeg(jr.IKdt), FSub(jr.lp[pt], jr.pn)))
        /\ \A ax \in 1..3 : \A pt \in DOMAIN GlobalForce(ax) :
              FEq(GlobalForce(ax)[pt],
                  IF pt[ax] = 0
                  THEN FSub(PressureTerm(pt, ax, 0), HalfWeight(ax))
                  ELSE IF pt[ax] = AxisOf(jr.fs, ax).tnods - 1
                  THEN FSub(FNeg(PressureTerm(Shift(pt, ax, -1), ax, pt[ax])),
                            HalfWeight(ax))
                  ELSE FSub(FNeg(HalfWeight(ax)), HalfWeight(ax)))

\* C14 witness: the evaluation of the scenario on the grid with cells of
\* two sizes along x, gravity acting across an interior face
C14_Witness ==
    /\ AtRestUniform
    /\ FLt(jr.fs.dsx.h_uni, FInt(0))
    /\ FEq(jr.gfx[<<1, 0, 0>>], FNeg(FMul(jr.rho, jr.grav[1])))
    /\ ~FEq(jr.gfx[<<0, 0, 0>>], jr.gfx[<<1, 0, 0>>])

\* C16: an evaluation in which a constitutive call returns a non-zero code
\* returns that code, makes no constitutive call after the failing one and
\* leaves the global residual vectors as they were.
C16_ErrorReturnsAtOnce ==
    (jr.last = "res" /\ jr.failAt # 0) =>
        /\ jr.ierr = jr.code
        /\ jr.ncalls = jr.failAt
        /\ <<jr.gfx, jr.gfy, jr.gfz>> = jr.gprev

\* C16 witness: GetStressEdge fails at the first XY edge, in an evaluation
\* that follows one with no error
C16_Witness ==
    /\ jr.last = "res"
    /\ jr.failAt = 3 * CornerCount(CenterRange(jr.fs)) + 2
    /\ jr.ierr # 0
    /\ \E pt \in DOMAIN jr.gfx : ~FEq(jr.gfx[pt], FInt(0))
    /\ \E pt \in DOMAIN jr.gfx : ~FEq(jr.lfx[pt], jr.gfx[pt])

---------------------------------------------------------------------------
(* The phases of a residual evaluation on two neighbouring processes:       *)
(* JacResGetEffStrainRate followed by JacResGetResidual, evaluation after   *)
(* evaluation. A strain-rate array is followed by the number of the         *)
(* evaluation that computed its values: own for the points a process owns,  *)
(* ghost for its copies of the points of the neighbour. LOCAL_TO_LOCAL is   *)
(* the pair DMLocalToLocalBegin (the owned values leave for the neighbour)  *)
(* and DMLocalToLocalEnd (blocked until the values of the neighbour are     *)
(* there).                                                                  *)

\* largest number of residual evaluations
MaxEvals == 2

PhaseProcs == {0, 1}

CenterArrays == {"ldxx", "ldyy", "ldzz"}

EdgeArrays == {"ldxy", "ldxz", "ldyz"}

\* exchanges of the three center arrays only
ExchangeOrder_CentersOnly == <<"ldxx", "ldyy", "ldzz", "ldxx", "ldyy", "ldzz">>

\* lines 563-568: the order of the six exchanges
ExchangeOrder == <<"ldxx", "ldyy", "ldzz", "ldxy", "ldxz", "ldyz">>

\* the steps of one evaluation in program order: the loops of
\* JacResGetEffStrainRate, its exchanges, the loops of JacResGetResidual
Steps ==
    <<[op |-> "StrainCenters", a |-> ""], [op |-> "StrainEdges", a |-> ""]>>
    \o [n \in 1..12 |->
          [op |-> IF n % 2 = 1 THEN "Begin" ELSE "End",
           a  |-> ExchangeOrder[(n + 1) \div 2]]]
    \o <<[op |-> "ResidualCenters", a |-> ""], [op |-> "ResidualXY", a |-> ""],
         [op |-> "ResidualXZ", a |-> ""], [op |-> "ResidualYZ", a |-> ""]>>

\* ghost values that are kept as they are
Refresh_Keep(ghost, a, ev) == ghost

\* DMLocalToLocalEnd: the ghost points take the values received
Refresh(ghost, a, ev) == [ghost EXCEPT ![a] = ev]

\* the arrays whose ghost points a loop of JacResGetResidual reads: the loop
\* over the centers reads the edge arrays around the center, a loop over
\* edges reads the three center arrays and the two other edge arrays
GhostReads(op) ==
    IF op = "ResidualCenters" THEN EdgeArrays
    ELSE IF op = "ResidualXY" THEN CenterArrays \cup {"ldxz", "ldyz"}
    ELSE IF op = "ResidualXZ" THEN CenterArrays \cup {"ldxy", "ldyz"}
    ELSE IF op = "ResidualYZ" THEN CenterArrays \cup {"ldxy", "ldxz"}
    ELSE {}

\* the process has left step st behind
Advance(q, st) ==
    [q EXCEPT !.pc = @ + 1, !.done = @ \cup {st}]

InitPhases ==
    /\ jr = [proc |-> [p \in PhaseProcs |->
                          [ev |-> 1, pc |-> 1, done |-> {},
                           own   |-> [a \in CenterArrays \cup EdgeArrays |-> 0],
                           ghost |-> [a \in CenterArrays \cup EdgeArrays |-> 0],
                           read  |-> {}]],
             chan |-> [p \in PhaseProcs |-> <<>>]]
    /\ AxisIdle /\ SegIdle /\ GridIdle /\ CourantIdle

\* the step process p is at
StepOf(p) == Steps[jr.proc[p].pc]

AtStep(p, op) == jr.proc[p].pc <= Len(Steps) /\ StepOf(p).op = op

\* lines 412-454: the loop over the centers of JacResGetEffStrainRate
StrainCenters(p) ==
    /\ AtStep(p, "StrainCenters")
    /\ jr' = [jr EXCEPT !.proc[p] =
                 Advance([@ EXCEPT !.own = [a \in DOMAIN @ |->
                                               IF a \in CenterArrays
                                               THEN jr.proc[p].ev ELSE @[a]]],
                         StepOf(p))]
    /\ UNCHANGED <<axisVars, segVars, gridVars, courantVars>>

\* lines 459-551: the three loops over the edges
StrainEdges(p) ==
    /\ AtStep(p, "StrainEdges")
    /\ jr' = [jr EXCEPT !.proc[p] =
                 Advance([@ EXCEPT !.own = [a \in DOMAIN @ |->
                                               IF a \in EdgeArrays
                                               THEN jr.proc[p].ev ELSE @[a]]],
                         StepOf(p))]
    /\ UNCHANGED <<axisVars, segVars, gridVars, courantVars>>

\* the first half of LOCAL_TO_LOCAL: the owned values go to the neighbour
ExchangeBegin(p) ==
    /\ AtStep(p, "Begin")
    /\ jr' = [jr EXCEPT !.proc[p] = Advance(@, StepOf(p)),
                        !.chan[1 - p] =
                            Append(@, [a  |-> StepOf(p).a,
                                       ev |-> jr.proc[p].own[StepOf(p).a]])]
    /\ UNCHANGED <<axisVars, segVars, gridVars, courantVars>>

\* the second half: blocked until the values of the neighbour have come
ExchangeEnd(p) ==
    /\ AtStep(p, "End")
    /\ jr.chan[p] # <<>>
    /\ Head(jr.chan[p]).a = StepOf(p).a
    /\ jr' = [jr EXCEPT !.proc[p] =
                            Advance([@ EXCEPT !.ghost =
                                        Refresh(@, StepOf(p).a,
                                                Head(jr.chan[p]).ev)],
                                    StepOf(p)),
                        !.chan[p] = Tail(@)]
    /\ UNCHANGED <<axisVars, segVars, gridVars, courantVars>>

\* a loop of JacResGetResidual; read keeps, for every ghost array the loop
\* reads, the evaluation its values come from
ResidualLoop(p) ==
    /\ jr.proc[p].pc <= Len(Steps)
    /\ GhostReads(StepOf(p).op) # {}
    /\ jr' = [jr EXCEPT !.proc[p] =
                 Advance([@ EXCEPT !.read =
                             @ \cup {jr.proc[p].ghost[a] :
                                        a \in GhostReads(StepOf(p).op)}],
                         StepOf(p))]
    /\ UNCHANGED <<axisVars, segVars, gridVars, courantVars>>

\* the next evaluation starts
NextEvaluation(p) ==
    /\ jr.proc[p].pc = Len(Steps) + 1
    /\ jr.proc[p].ev < MaxEvals
    /\ jr' = [jr EXCEPT !.proc[p] =
                 [@ EXCEPT !.ev = @ + 1, !.pc = 1, !.done = {}, !.read = {}]]
    /\ UNCHANGED <<axisVars, segVars, gridVars, courantVars>>

NextPhases ==
    \E p \in PhaseProcs :
        \/ StrainCenters(p)
        \/ StrainEdges(p)
        \/ ExchangeBegin(p)
        \/ ExchangeEnd(p)
        \/ ResidualLoop(p)
        \/ NextEvaluation(p)

SpecPhases == InitPhases /\ [][NextPhases]_vars

---------------------------------------------------------------------------
(* Claim on the phases: C15 *)

\* the steps of the given kinds that lie behind process p in its evaluation
DoneOps(p) == {st.op : st \in jr.proc[p].done}

Refreshed(p, arrays) ==
    \A a \in arrays : [op |-> "End", a |-> a] \in jr.proc[p].done

\* the loops of the residual run in the order centers, XY, XZ, YZ after all
\* the ghost refreshes, and every ghost value they read was computed by its
\* owner in the same evaluation
AssemblyReadsCurrent(p) ==
    /\ "ResidualCenters" \in DoneOps(p) =>
          Refreshed(p, CenterArrays \cup EdgeArrays)
    /\ "ResidualXY" \in DoneOps(p) => "ResidualCenters" \in DoneOps(p)
    /\ "ResidualXZ" \in DoneOps(p) => "ResidualXY" \in DoneOps(p)
    /\ "ResidualYZ" \in DoneOps(p) => "ResidualXZ" \in DoneOps(p)
    /\ jr.proc[p].read \subseteq {jr.proc[p].ev}

\* C15 as stated: the strain rates at the centers are followed by their
\* ghost refresh, then come the strain rates at the edges and their ghost
\* refresh, then the residual at the centers and at each edge type; every
\* ghost value the residual reads is the one its owner computed in the same
\* evaluation.
C15_RefreshBetweenStrainLoops ==
    \A p \in PhaseProcs :
        /\ Refreshed(p, CenterArrays) => "StrainCenters" \in DoneOps(p)
        /\ "StrainEdges" \in DoneOps(p) => Refreshed(p, CenterArrays)
        /\ Refreshed(p, EdgeArrays) => "StrainEdges" \in DoneOps(p)
        /\ AssemblyReadsCurrent(p)

\* C15 amended: the strain rates at the centers and then at the edges are
\* computed first, then the ghosts of the three center arrays and of the
\* three edge arrays are refreshed, then come the residual at the centers
\* and at each edge type; every ghost value the residual reads is the one
\* its owner computed in the same evaluation.
C15_RefreshAfterStrainLoops ==
    \A p \in PhaseProcs :
        /\ "StrainEdges" \in DoneOps(p) => "StrainCenters" \in DoneOps(p)
        /\ "Begin" \in DoneOps(p) => "StrainEdges" \in DoneOps(p)
        /\ \A a \in EdgeArrays :
              [op |-> "End", a |-> a] \in jr.proc[p].done =>
                  Refreshed(p, CenterArrays)
        /\ AssemblyReadsCurrent(p)

\* C15 witness: both processes have read ghost values in their second
\* evaluation
C15_Witness ==
    \A p \in PhaseProcs :
        /\ jr.proc[p].ev = 2
        /\ "ResidualYZ" \in DoneOps(p)
        /\ jr.proc[p].read = {2}

---------------------------------------------------------------------------
(* Discret1DCheckMG: the multigrid check of one axis *)

\* largest number of cells of the axis in the multigrid check
MaxMGCells == 12

\* largest number of processes along the axis in the multigrid check
MaxMGProc == 3

PETSC_ERR_USER == 83

\* a % b of C for operands that are not negative
CMod(a, b) == a % b

\* a / b of C for operands that are not negative
CDiv(a, b) == a \div b

\* while(!(sz % 2)) { sz /= 2; ncors++; }  the value of ncors after the loop
RECURSIVE Coarsenings_Short(_, _)
Coarsenings_Short(sz, ncors) ==
    IF CMod(sz, 2) # 0 \/ ncors >= 1 THEN ncors
    ELSE Coarsenings_Short(CDiv(sz, 2), ncors + 1)

RECURSIVE Coarsenings(_, _)
Coarsenings(sz, ncors) ==
    IF ~(CMod(sz, 2) = 0) THEN ncors
    ELSE Coarsenings(CDiv(sz, 2), ncors + 1)

\* Discret1DCheckMG(ds, dir, &ncors) on the record d, whose field ncors is
\* the caller's output variable; ierr and msg are what SETERRQ1 returns
Discret1DCheckMG(d, dir) ==
    IF CMod(d.ncels, 2) # 0
    THEN [d EXCEPT !.pc = "checked", !.dir = dir, !.ierr = PETSC_ERR_USER,
                   !.msg = <<"Local grid size is an odd number", dir>>]
    ELSE IF CMod(d.tcels, d.nproc) # 0
    THEN [d EXCEPT !.pc = "checked", !.dir = dir, !.ierr = PETSC_ERR_USER,
                   !.msg = <<"Uniform local grid size doesn't exist", dir>>]
    ELSE IF CDiv(d.tcels, d.nproc) # d.ncels
    THEN [d EXCEPT !.pc = "checked", !.dir = dir, !.ierr = PETSC_ERR_USER,
                   !.msg = <<"Local grid size is not constant on all processors",
                             dir>>]
    ELSE [d EXCEPT !.pc = "checked", !.dir = dir, !.ierr = 0,
                   !.msg = <<>>,
                   !.ncors = Coarsenings(d.ncels, 0)]

\* the cells a process can own of tcels cells shared by nproc processes:
\* every process holds a node, the last one holds one cell less than nodes
OwnedCells(tcels, nproc) ==
    IF nproc = 1 THEN {tcels}
    ELSE {c \in 0..tcels : c <= tcels - nproc + 2}

\* the values the caller's output variable can hold before the call
PriorCoarsenings == {-1, 5}

MGDirections == {"x", "y", "z"}

InitCheckMG ==
    /\ usr = "idle" /\ ms = "idle"
    /\ SegIdle /\ GridIdle /\ CopyIdle /\ CourantIdle
    /\ \E tcels \in 1..MaxMGCells, nproc \in 1..MaxMGProc :
       \E ncels \in OwnedCells(tcels, nproc), prior \in PriorCoarsenings :
          /\ nproc <= tcels + 1
          /\ ds = [pc |-> "created", ncels |-> ncels, tcels |-> tcels,
                   nproc |-> nproc, prior |-> prior, ncors |-> prior,
                   dir |-> "", ierr |-> 0, msg |-> <<>>]

CheckMG(dir) ==
    /\ ds.pc = "created"
    /\ ds' = Discret1DCheckMG(ds, dir)
    /\ UNCHANGED <<usr, ms, segVars, gridVars, copyVars, courantVars>>

NextCheckMG == \E dir \in MGDirections : CheckMG(dir)

SpecCheckMG == InitCheckMG /\ [][NextCheckMG]_vars

---------------------------------------------------------------------------
(* Claim on the multigrid check: C17 *)

\* the first of the three conditions of the claim that holds, 0 if none
FirstFailure(d) ==
    IF d.ncels % 2 = 1 THEN 1
    ELSE IF \A q \in 0..d.tcels : q * d.nproc # d.tcels THEN 2
    ELSE IF d.tcels # d.ncels * d.nproc THEN 3
    ELSE 0

FailureText(n) ==
    IF n = 1 THEN "Local grid size is an odd number"
    ELSE IF n = 2 THEN "Uniform local grid size doesn't exist"
    ELSE "Local grid size is not constant on all processors"

\* k halvings turn n into an odd number
HalvesToOdd(n, k) ==
    \E m \in 0..n : m % 2 = 1 /\ m * Pow2(k) = n

\* C17: Discret1DCheckMG returns a user error that names the axis exactly
\* when ncels is odd, or tcels is not a multiple of nproc, or tcels/nproc
\* differs from ncels, the conditions being tried in that order and the
\* output left unwritten; otherwise it returns 0 and the output is the number
\* k >= 1 of halvings that turn ncels into an odd number.
C17_CheckMG ==
    ds.pc = "checked" =>
        IF FirstFailure(ds) # 0
        THEN /\ ds.ierr = PETSC_ERR_USER
             /\ ds.msg = <<FailureText(FirstFailure(ds)), ds.dir>>
             /\ ds.ncors = ds.prior
        ELSE /\ ds.ierr = 0
             /\ ds.ncors >= 1
             /\ HalvesToOdd(ds.ncels, ds.ncors)

\* C17 witness: a check that passed with more than one halving on a
\* partitioned axis
C17_Witness ==
    /\ ds.pc = "checked"
    /\ ds.ierr = 0
    /\ ds.nproc > 1
    /\ ds.ncors >= 2

---------------------------------------------------------------------------
(* FDSTAGGetAspectRatio and FDSTAGView on a Px x 1 x Pz process grid *)

\* rt of lines 1085-1087 for the mesh steps a and b, with the order of the
\* operands fixed
AspectRatio_Plain(a, b) == FDiv(a, b)

\* if(a > b) rt = a/b; else rt = b/a;
AspectRatio(a, b) == IF FGt(a, b) THEN FDiv(a, b) ELSE FDiv(b, a)

\* if(rt > lrt) lrt = rt;
Larger(rt, lrt) == IF FGt(rt, lrt) THEN rt ELSE lrt

\* lines 1080-1087 at the cell pt, lrt being the maximum so far
CellAspect(dx, dy, dz, lrt) ==
    Larger(AspectRatio(dy, dz),
           Larger(AspectRatio(dx, dz),
                  Larger(AspectRatio(dx, dy), lrt)))

\* the loop of lines 1077-1089 from its n-th cell on
RECURSIVE LocalAspect(_, _, _)
LocalAspect(f, n, lrt) ==
    IF n > CornerCount(CenterRange(f)) THEN lrt
    ELSE LocalAspect(f, n + 1,
            CellAspect(
                SIZE_CELL(LoopPoint(CenterRange(f), n)[1], f.dsx.pstart, f.dsx),
                SIZE_CELL(LoopPoint(CenterRange(f), n)[2], f.dsy.pstart, f.dsy),
                SIZE_CELL(LoopPoint(CenterRange(f), n)[3], f.dsz.pstart, f.dsz),
                lrt))

\* lines 1092-1103: the MPI_Allreduce with MPI_MAX over the values lrts of
\* all processes, or the local value on a single process
GlobalAspect(nproc, lrt, lrts) == IF nproc # 1 THEN MaxOf(lrts) ELSE lrt

\* FDSTAGView from line 1189 on, maxAspRat being known
ViewAspect(f, maxAspRat) ==
    IF FGt(maxAspRat, FInt(5))
    THEN [f EXCEPT !.pc = "viewed", !.maxAspRat = maxAspRat,
                   !.ierr = PETSC_ERR_USER, !.warned = FALSE]
    ELSE [f EXCEPT !.pc = "viewed", !.maxAspRat = maxAspRat, !.ierr = 0,
                   !.warned = FGt(maxAspRat, FInt(2))]

\* the x axis: two segments of one cell each, of sizes 1 and w
AspectWidths == {1, 2, 3, 5, 6}

AspectMeshX(w) ==
    MeshSeg1DCreate(FInt(0), FInt(1 + w), 2,
                    [nsegs |-> 2, ncells |-> (0 :> 1 @@ 1 :> 1),
                     delims |-> (0 :> FInt(1)),
                     biases |-> (0 :> FInt(1) @@ 1 :> FInt(1))])

\* the y axis: one cell of size 1 or 2
AspectDepths == {1, 2}

AspectMeshY(l) ==
    MeshSeg1DCreate(FInt(0), FInt(l), 1,
                    [nsegs |-> 1, ncells |-> (0 :> 1), delims |-> <<>>,
                     biases |-> (0 :> FInt(1))])

\* the z axis: two cells of equal size, on [0, h]
AspectHeights == {1, 2, 4}

AspectMeshZ(h) ==
    MeshSeg1DCreate(FInt(0), FInt(h), 2,
                    [nsegs |-> 1, ncells |-> (0 :> 2), delims |-> <<>>,
                     biases |-> (0 :> FInt(1))])

\* the nodes of the P processes of an axis of two cells: DMDACreate3d gives
\* every process a cell, the last process holds the closing node
AspectNodes(P) == IF P = 1 THEN (0 :> 3) ELSE (0 :> 1 @@ 1 :> 2)

\* the axis on process r of P
AspectAxis(m, P, r, nnodProc, prev, next) ==
    Discret1DGenCoord([pc |-> "created"]
                      @@ Discret1DCreate(P, r, nnodProc, 0, prev, next), m)

\* the processes of the grid as (i, k)
AspectProcs(g) == (0..(g.Px - 1)) \X (0..(g.Pz - 1))

\* the grid on process p, FDSTAGCreate and FDSTAGGenCoord being done
AspectFDSTAG(g, p) ==
    [pc  |-> "created",
     dsx |-> AspectAxis(AspectMeshX(g.w), g.Px, p[1], AspectNodes(g.Px),
                        getGlobalRank(p[1] - 1, 0, p[2], g.Px, 1, g.Pz),
                        getGlobalRank(p[1] + 1, 0, p[2], g.Px, 1, g.Pz)),
     dsy |-> AspectAxis(AspectMeshY(g.l), 1, 0, (0 :> 2), -1, -1),
     dsz |-> AspectAxis(AspectMeshZ(g.h), g.Pz, p[2], AspectNodes(g.Pz),
                        getGlobalRank(p[1], 0, p[2] - 1, g.Px, 1, g.Pz),
                        getGlobalRank(p[1], 0, p[2] + 1, g.Px, 1, g.Pz)),
     lrt |-> FInt(0), maxAspRat |-> FInt(0), ierr |-> 0, warned |-> FALSE]

InitAspect ==
    /\ AxisIdle /\ SegIdle /\ CopyIdle /\ CourantIdle
    /\ \E Px \in 1..2, Pz \in 1..2 :
       \E w \in AspectWidths, l \in AspectDepths, h \in AspectHeights :
          grid = [Px |-> Px, Pz |-> Pz, w |-> w, l |-> l, h |-> h]
    /\ fs = [p \in AspectProcs(grid) |-> AspectFDSTAG(grid, p)]

\* FDSTAGView on process p up to the MPI_Allreduce of FDSTAGGetAspectRatio;
\* on a single process there is no exchange and the call runs to its end
ViewScan(p) ==
    /\ fs[p].pc = "created"
    /\ \E lrt \in {LocalAspect(fs[p], 1, FInt(0))} :
          fs' = [fs EXCEPT ![p] =
                    IF grid.Px * grid.Pz # 1
                    THEN [fs[p] EXCEPT !.pc = "reduce", !.lrt = lrt]
                    ELSE ViewAspect([fs[p] EXCEPT !.lrt = lrt],
                                    GlobalAspect(1, lrt, {lrt}))]
    /\ UNCHANGED <<grid, axisVars, segVars, copyVars, courantVars>>

\* the MPI_Allreduce returns on process p once every process has
\* contributed, and FDSTAGView runs to its end
ViewReduce(p) ==
    /\ fs[p].pc = "reduce"
    /\ \A q \in AspectProcs(grid) : fs[q].pc \in {"reduce", "viewed"}
    /\ fs' = [fs EXCEPT ![p] =
                ViewAspect(fs[p],
                           GlobalAspect(grid.Px * grid.Pz, fs[p].lrt,
                                        {fs[q].lrt : q \in AspectProcs(grid)}))]
    /\ UNCHANGED <<grid, axisVars, segVars, copyVars, courantVars>>

NextAspect ==
    \/ \E p \in AspectProcs(grid) : ViewScan(p)
    \/ \E p \in AspectProcs(grid) : ViewReduce(p)

SpecAspect == InitAspect /\ [][NextAspect]_vars

---------------------------------------------------------------------------
(* Claim on the aspect ratio: C18 *)

\* the cells of process q
AspectCells(q) == Owned(CenterRange(fs[q]))

\* the edge lengths of cell pt of process q along the three axes
EdgeLength(q, pt, ax) ==
    SIZE_CELL(pt[ax], AxisOf(fs[q], ax).pstart, AxisOf(fs[q], ax))

\* the larger of two lengths over the smaller
LargerOverSmaller(a, b) == IF FLt(a, b) THEN FDiv(b, a) ELSE FDiv(a, b)

\* the three pairwise ratios of the cells of process q
CellRatios(q) ==
    {LargerOverSmaller(EdgeLength(q, pt, pr[1]), EdgeLength(q, pt, pr[2])) :
        pt \in AspectCells(q), pr \in {<<1, 2>>, <<1, 3>>, <<2, 3>>}}

\* C18: FDSTAGGetAspectRatio returns on every process the maximum, over all
\* cells of all processes, of the three pairwise edge-length ratios taken as
\* larger over smaller, a value that is at least 1; FDSTAGView returns an
\* error exactly when the value is above 5 and prints the precision warning
\* exactly when it is above 2 and not above 5.
C18_AspectRatio ==
    \A p \in AspectProcs(grid) :
        fs[p].pc = "viewed" =>
            /\ FEq(fs[p].maxAspRat,
                   MaxOf(UNION {CellRatios(q) : q \in AspectProcs(grid)}))
            /\ ~FLt(fs[p].maxAspRat, FInt(1))
            /\ (fs[p].ierr # 0) = FGt(fs[p].maxAspRat, FInt(5))
            /\ fs[p].ierr \in {0, PETSC_ERR_USER}
            /\ fs[p].warned = (/\ FGt(fs[p].maxAspRat, FInt(2))
                               /\ ~FGt(fs[p].maxAspRat, FInt(5)))

\* C18 witness: on four processes every process warns, and the largest ratio
\* belongs to a cell of another process than one of them
C18_Witness ==
    /\ grid.Px * grid.Pz = 4
    /\ \A p \in AspectProcs(grid) : fs[p].pc = "viewed" /\ fs[p].warned
    /\ \E p \in AspectProcs(grid) : FLt(fs[p].lrt, fs[p].maxAspRat)

---------------------------------------------------------------------------
(* The log file comparison of src/test/test_utils.jl *)

\* largest number of lines of a log file
MaxLines == 2

\* the keywords looked for
LogKeywords == <<"|Div|_inf", "|mRes|_2">>

\* the text that follows the keyword and the split sign on a line
LogTexts == {"2", "3", "x"}

\* a line holds one of the keywords, or none of them
LogLines ==
    {[key |-> ""]}
    \cup [key : {LogKeywords[i] : i \in DOMAIN LogKeywords}, text : LogTexts]

LogFiles == UNION {[1..n -> LogLines] : n \in 0..MaxLines}

\* contains(line, keyword)
contains(line, keyword) == line.key = keyword

\* parse(Float64, text) within its try block: the number, or the NaN that
\* num holds when the parse throws
extract_value_from_string(line) ==
    IF line.text = "2" THEN FInt(2)
    ELSE IF line.text = "3" THEN FInt(3)
    ELSE NaN

\* the while loop of extract_info_logfiles over the lines that are left of
\* file; d is the vector of values pushed so far
RECURSIVE ReadLines(_, _, _)
ReadLines(file, keyword, d) ==
    IF file = <<>> THEN d
    ELSE ReadLines(Tail(file), keyword,
                   IF contains(Head(file), keyword)
                   THEN Append(d, extract_value_from_string(Head(file)))
                   ELSE d)

\* extract_info_logfiles(file, keywords): one vector of values per keyword
extract_info_logfiles(file, keywords) ==
    [i \in DOMAIN keywords |-> ReadLines(file, keywords[i], <<>>)]

\* the sum of the squares of x[k] - y[k] from index k on
RECURSIVE SumSqDiff(_, _, _)
SumSqDiff(x, y, k) ==
    IF k > Len(x) THEN FInt(0)
    ELSE FAdd(Sq(FSub(x[k], y[k])), SumSqDiff(x, y, k + 1))

\* norm(x)^2
NormSq(x) == SumSqDiff(x, [k \in DOMAIN x |-> FInt(0)], 1)

FMax(a, b) == IF FLt(a, b) THEN b ELSE a

\* isapprox(a, b; rtol, atol) of two numbers
ScalarApprox(a, b, rtol, atol) ==
    \/ FEq(a, b)
    \/ /\ IsFinite(a)
       /\ IsFinite(b)
       /\ ~FGt(FAbs(FSub(a, b)), FMax(atol, FMul(rtol, FMax(FAbs(a), FAbs(b)))))

\* isapprox(x, y; rtol, atol) of two vectors of one length: the norm of the
\* difference against max(atol, rtol*max(norm(x), norm(y))), compared as
\* squares; a difference whose norm is not finite falls back to the numbers
isapprox(x, y, rtol, atol) ==
    IF IsFinite(SumSqDiff(x, y, 1))
    THEN ~FGt(SumSqDiff(x, y, 1),
              FMax(Sq(atol), FMul(Sq(rtol), FMax(NormSq(x), NormSq(y)))))
    ELSE \A k \in DOMAIN x : ScalarApprox(x[k], y[k], rtol, atol)

\* rtol and atol of the accuracy of one keyword, 0 when it has no such key
Tolerance(acc, key) == IF key \in DOMAIN acc THEN acc[key] ELSE FInt(0)

\* the test of one keyword that skips the comparison of the lengths
KeywordPasses_AnyLength(n, e, acc) ==
    IF Len(n) = Len(e)
    THEN isapprox(n, e, Tolerance(acc, "rtol"), Tolerance(acc, "atol"))
    ELSE TRUE

\* lines 194-205: the test of one keyword, FALSE when test_status is set
\* to false
KeywordPasses(n, e, acc) ==
    IF Len(n) = Len(e)
    THEN isapprox(n, e, Tolerance(acc, "rtol"), Tolerance(acc, "atol"))
    ELSE FALSE

\* the loop of compare_logfiles from keyword i on
RECURSIVE CompareLoop(_, _, _, _, _)
CompareLoop(new_out, exp_out, accuracy, i, test_status) ==
    IF i > Len(accuracy) THEN test_status
    ELSE CompareLoop(new_out, exp_out, accuracy, i + 1,
                     IF KeywordPasses(new_out[i], exp_out[i], accuracy[i])
                     THEN test_status ELSE FALSE)

\* compare_logfiles(new, expected, keywords, accuracy)
compare_logfiles(new, expected, keywords, accuracy) ==
    CompareLoop(extract_info_logfiles(new, keywords),
                extract_info_logfiles(expected, keywords),
                accuracy, 1, TRUE)

\* the accuracies of the two keywords
Accuracies ==
    {<<[rtol |-> Rat(1, 2)], [atol |-> FInt(1)]>>,
     <<[rtol |-> FInt(0)], [rtol |-> Rat(1, 4), atol |-> Rat(1, 2)]>>,
     <<[atol |-> FInt(1)], [rtol |-> Rat(1, 2)]>>}

InitLogs ==
    /\ ms = "idle" /\ ds = "idle"
    /\ SegIdle /\ GridIdle /\ CopyIdle /\ CourantIdle
    /\ \E new \in LogFiles, expected \in LogFiles, accuracy \in Accuracies :
          usr = [pc |-> "written", new |-> new, expected |-> expected,
                 keywords |-> LogKeywords, accuracy |-> accuracy,
                 success |-> FALSE]

CompareLogs ==
    /\ usr.pc = "written"
    /\ usr' = [usr EXCEPT !.pc = "compared",
                          !.success = compare_logfiles(usr.new, usr.expected,
                                                       usr.keywords, usr.accuracy)]
    /\ UNCHANGED <<ms, ds, segVars, gridVars, copyVars, courantVars>>

NextLogs == CompareLogs

SpecLogs == InitLogs /\ [][NextLogs]_vars

---------------------------------------------------------------------------
(* Claim on the log file comparison: C19 *)

\* the lines of file that hold the keyword, in the order of the file
KeywordLines(file, keyword) ==
    SelectSeq(file, LAMBDA line : line.key = keyword)

\* the values of the keyword in the new and in the expected log differ in
\* number, or fail the tolerance check of the keyword
KeywordFails(i) ==
    \/ Len(KeywordLines(usr.new, usr.keywords[i]))
         # Len(KeywordLines(usr.expected, usr.keywords[i]))
    \/ ~isapprox(extract_info_logfiles(usr.new, usr.keywords)[i],
                 extract_info_logfiles(usr.expected, usr.keywords)[i],
                 Tolerance(usr.accuracy[i], "rtol"),
                 Tolerance(usr.accuracy[i], "atol"))

\* C19: compare_logfiles returns false whenever for some keyword the new and
\* the expected log hold different numbers of values or values that are not
\* approximately equal under the rtol and atol of the keyword, and it returns
\* true only when every keyword has vectors of one length that pass the
\* tolerance check.
C19_CompareLogfiles ==
    usr.pc = "compared" =>
        /\ (\E i \in DOMAIN usr.keywords : KeywordFails(i)) => ~usr.success
        /\ usr.success => \A i \in DOMAIN usr.keywords : ~KeywordFails(i)

\* C19 witness: the values of the first keyword differ and pass its
\* tolerance check, the second keyword has one value in the new log and none
\* in the expected log, and the comparison has returned false
C19_Witness ==
    /\ usr.pc = "compared"
    /\ ~usr.success
    /\ ~KeywordFails(1)
    /\ KeywordLines(usr.new, usr.keywords[1])
         # KeywordLines(usr.expected, usr.keywords[1])
    /\ Len(KeywordLines(usr.new, usr.keywords[2])) = 1
    /\ Len(KeywordLines(usr.expected, usr.keywords[2])) = 0

---------------------------------------------------------------------------
(* Claim on the segments Discret1DGenCoord generates from: C20 *)

\* the processes whose Discret1DGenCoord has run its loop over the segments
CoordsGenerated(p) == ds[p].pc \in {"reduce", "aborted", "done"}

\* the first and the last global node of the local range of process p:
\* the owned nodes, one ghost node of the previous process and two of the
\* next
FirstLocalNode(d) == IF d.grprev # -1 THEN d.pstart - 1 ELSE d.pstart

LastLocalNode(d) ==
    d.pstart + d.nnods - 1 + (IF d.grnext # -1 THEN 2 ELSE 0)

\* segment i of the table m has a node in the local range of d
Overlaps(m, i, d) ==
    /\ m.istart[i] <= LastLocalNode(d)
    /\ m.istart[i + 1] >= FirstLocalNode(d)

\* the ncoor indices of the node buffer
NodeBuffer(d) ==
    IF d.grnext # -1 THEN -1..(d.nnods + 1) ELSE -1..d.nnods

\* C20: Discret1DGenCoord calls MeshSeg1DGenCoord only for the segments that
\* overlap the local node range of the process (owned nodes and interior
\* ghosts), and every store of these calls lands inside the node buffer, at
\* the ncoor indices -1 .. nnods+1 on a process with a next neighbour and
\* -1 .. nnods on one without.
C20_OverlappingSegmentsOnly ==
    \A p \in AxisProcs(usr) :
        CoordsGenerated(p) =>
            /\ \A c \in ds[p].calls : Overlaps(ms[p], c.seg, ds[p])
            /\ ds[p].oob = {}
            /\ DOMAIN ds[p].ncoor = NodeBuffer(ds[p])

---------------------------------------------------------------------------
(* The mesh step of the Courant criterion: C21 *)

\* lines 1726-1730: the mesh step of velocity v at a point whose entry of
\* the index buffer in the direction looked at is ijk
MeshStep(d, v, ijk) ==
    IF ~FLt(v, FInt(0)) /\ ~IsNaN(v)
    THEN FSub(d.ncoor[ijk + 1], d.ncoor[ijk])
    ELSE FSub(d.ncoor[ijk], d.ncoor[ijk - 1])

\* lines 1666-1668: the argument dir of the call for component comp
CourantDir(comp) == 0

\* lines 1721-1723: the index buffer of point pt of the loop over range c
IndexBuffer(c, pt) == <<pt[1] - c.sx, pt[2] - c.sy, pt[3] - c.sz>>

\* the mesh step the call for component comp uses at the owned point pt
MeshStepUsed(f, gv, comp, pt) ==
    MeshStep(ComponentAxis(f, comp), ComponentVelocity(gv, comp)[pt],
             IndexBuffer(ComponentRange(f, comp), pt)[CourantDir(comp) + 1])

\* the width along axis d of the cell upwind of a point of index i along
\* that axis: cell i for v >= 0, cell i-1 for v < 0
UpwindWidth(d, v, i) ==
    IF FLt(v, FInt(0)) THEN SIZE_CELL(i - 1, 0, d) ELSE SIZE_CELL(i, 0, d)

\* C21: on a non-uniform axis the mesh step used for a velocity point of
\* component a is the width along axis a of the cell upwind of the point at
\* the point's own index along axis a, and a velocity that is positive there
\* gives the inverse time step v/h with that width.
C21_UpwindCellWidth ==
    ts.calls >= 1 =>
        \A comp \in 0..2 :
            FLt(ComponentAxis(ts.fs, comp).h_uni, FInt(0)) =>
                \A pt \in Owned(ComponentRange(ts.fs, comp)) :
                    /\ FEq(MeshStepUsed(ts.fs, ts.gv, comp, pt),
                           UpwindWidth(ComponentAxis(ts.fs, comp),
                                       ComponentVelocity(ts.gv, comp)[pt],
                                       IndexBuffer(ComponentRange(ts.fs, comp),
                                                   pt)[comp + 1]))
                    /\ FGt(ComponentVelocity(ts.gv, comp)[pt], FInt(0)) =>
                          FEq(ts.idtmax,
                              FDiv(ComponentVelocity(ts.gv, comp)[pt],
                                   UpwindWidth(ComponentAxis(ts.fs, comp),
                                       ComponentVelocity(ts.gv, comp)[pt],
                                       IndexBuffer(ComponentRange(ts.fs, comp),
                                                   pt)[comp + 1])))

---------------------------------------------------------------------------
(* Discret1DStretch on the processes of one axis *)

\* largest number of stretches of one process
MaxStretches == 2

\* MeshSeg1DStretch(ms, eps)
MeshSeg1DStretch(m, eps) ==
    [m EXCEPT !.xstart = [i \in DOMAIN m.xstart |->
                             FMul(m.xstart[i], FSub(FInt(1), eps))]]

\* lines 418-419: the mesh steps of a non-uniform axis
ScaledSteps(d, eps) ==
    [d EXCEPT !.h_min = FMul(d.h_min, FSub(FInt(1), eps)),
              !.h_max = FMul(d.h_max, FSub(FInt(1), eps))]

\* lines 423-426: the mesh steps of a uniform axis, h being the uniform
\* step of the stretched segments
UniformSteps(d, h) == [d EXCEPT !.h_uni = h, !.h_min = h, !.h_max = h]

\* lines 407-411: the node buffer scaled and the cell centers left as they
\* were
StretchedCoords_StaleCenters(d, eps) ==
    [d EXCEPT !.ncoor = [i \in DOMAIN d.ncoor |->
                            FMul(d.ncoor[i], FSub(FInt(1), eps))]]

\* lines 407-411: the node buffer scaled, the cell centers recomputed
StretchedCoords(d, eps) ==
    CellCenters([d EXCEPT !.ncoor = [i \in DOMAIN d.ncoor |->
                                        FMul(d.ncoor[i], FSub(FInt(1), eps))]])

\* Discret1DStretch(ds, ms, eps) after MeshSeg1DStretch, m being the
\* stretched segment table
Discret1DStretch(d, m, eps) ==
    IF FLt(d.h_uni, FInt(0))
    THEN ScaledSteps(StretchedCoords(d, eps), eps)
    ELSE UniformSteps(StretchedCoords(d, eps), MeshSeg1DGetUniStep(m))

\* the axes: n cells on [beg, beg + 2n] in one segment of the given bias,
\* or three cells in two segments
StretchMeshes ==
    {MeshSeg1DCreate(FInt(beg), FInt(beg + 2 * n), n,
                     [nsegs |-> 1, ncells |-> (0 :> n), delims |-> <<>>,
                      biases |-> (0 :> bias)]) :
        beg \in {-1, 0}, n \in 2..3, bias \in Biases}
    \cup {MeshSeg1DCreate(FInt(-1), FInt(4), 3,
                          [nsegs |-> 2, ncells |-> (0 :> 2 @@ 1 :> 1),
                           delims |-> (0 :> FInt(1)),
                           biases |-> (0 :> FInt(1) @@ 1 :> FInt(1))])}

\* the nodes of the processes: one process, or two with the nodes split
\* after the first one
StretchPartitions(m) ==
    {(0 :> (m.istart[m.nsegs] + 1)),
     (0 :> 1 @@ 1 :> m.istart[m.nsegs])}

\* the stretch factors eps
Epsilons == {Rat(1, 2), FInt(-1)}

StretchProcs(u) == DOMAIN u.nnodProc

\* Discret1DCreate and the loop of Discret1DGenCoord on process r
LocalAxis(u, r) ==
    Discret1DGenCoord(
        [pc |-> "created"]
        @@ Discret1DCreate(Cardinality(DOMAIN u.nnodProc), r, u.nnodProc, 0,
               getGlobalRank(r - 1, 0, 0, Cardinality(DOMAIN u.nnodProc), 1, 1),
               getGlobalRank(r + 1, 0, 0, Cardinality(DOMAIN u.nnodProc), 1, 1)),
        u.m)

\* the axis of process r after Discret1DGenCoord and its reductions
GeneratedAxis(u, r) ==
    StoreSizes(LocalAxis(u, r),
               MinOf({LocalAxis(u, q).lminsz : q \in StretchProcs(u)}),
               MaxOf({LocalAxis(u, q).lmaxsz : q \in StretchProcs(u)}),
               MeshSeg1DGetUniStep(u.m))

InitStretch ==
    /\ SegIdle /\ GridIdle /\ CopyIdle /\ CourantIdle
    /\ \E m \in StretchMeshes : \E nn \in StretchPartitions(m) :
          usr = [m |-> m, nnodProc |-> nn]
    /\ ms = [r \in StretchProcs(usr) |-> usr.m]
    /\ ds = [r \in StretchProcs(usr) |->
                [count |-> 0, factor |-> FInt(1)] @@ GeneratedAxis(usr, r)]

\* Discret1DStretch(ds, ms, eps) on process r; count and factor keep the
\* number of stretches and the product of their factors
Stretch(r, eps) ==
    /\ ds[r].count < MaxStretches
    /\ ms' = [ms EXCEPT ![r] = MeshSeg1DStretch(ms[r], eps)]
    /\ ds' = [ds EXCEPT ![r] =
                [Discret1DStretch(ds[r], MeshSeg1DStretch(ms[r], eps), eps)
                    EXCEPT !.count = @ + 1,
                           !.factor = FMul(@, FSub(FInt(1), eps))]]
    /\ UNCHANGED <<usr, segVars, gridVars, copyVars, courantVars>>

NextStretch == \E r \in StretchProcs(usr), eps \in Epsilons : Stretch(r, eps)

SpecStretch == InitStretch /\ [][NextStretch]_vars

---------------------------------------------------------------------------
(* Claim on the stretched axis: C22 *)

\* the sizes of the cells of the axis as process r holds them
CellSizes(r) == {SIZE_CELL(i, 0, ds[r]) : i \in 0..(ds[r].ncels - 1)}

\* the sizes of all cells of the axis generated from the segment table,
\* times the product of the stretch factors of process r
StretchedSizes(r) ==
    {FMul(c, ds[r].factor) :
        c \in UNION {{SIZE_CELL(i, 0, GeneratedAxis(usr, q)) :
                         i \in 0..(GeneratedAxis(usr, q).ncels - 1)} :
                     q \in StretchProcs(usr)}}

---------------------------------------------------------------------------
(* Claim on the index bounds of the edge loops: C23 *)

\* array l with an unknown value (NaN) at every location outside the global
\* index range c of the array, the ghost layer of the domain boundary
UnknownOutside(l, c) ==
    [pt \in DOMAIN l |-> IF pt \in Owned(c) THEN l[pt] ELSE NaN]

\* the strain rates with unknown values at the domain-boundary ghosts
UnknownGhosts(j) ==
    [j EXCEPT !.ldxx = UnknownOutside(@, CenterRange(j.fs)),
              !.ldyy = UnknownOutside(@, CenterRange(j.fs)),
              !.ldzz = UnknownOutside(@, CenterRange(j.fs)),
              !.ldxy = UnknownOutside(@, XYEdgeRange(j.fs)),
              !.ldxz = UnknownOutside(@, XZEdgeRange(j.fs)),
              !.ldyz = UnknownOutside(@, YZEdgeRange(j.fs))]

\* C23: in the edge loops of JacResGetResidual every neighbour index that
\* would fall outside the domain is replaced by the boundary index, so at
\* every edge point of every type, on axes of one cell too, the second
\* invariant is made of strain rates read inside the global index range of
\* their arrays: it does not depend on any domain-boundary ghost value.
C23_EdgeSamplesInsideDomain ==
    (jr.last = "res" /\ jr.ierr = 0) =>
        \A r \in 1..3 : \A n \in 1..CornerCount(EdgeRange(jr.fs, r)) :
            FEq(jr[EdgeName(r)][n - 1].DII2,
                EdgeJ2Inv(UnknownGhosts(jr), LoopPoint(EdgeRange(jr.fs, r), n), r))

\* C23 witness: an evaluation with a non-zero second invariant at an edge
\* that lies on the lower and on the upper boundary of the single-cell axis
\* and on the upper boundary of another axis
C23_Witness ==
    /\ jr.last = "res"
    /\ jr.ierr = 0
    /\ \E n \in 1..CornerCount(EdgeRange(jr.fs, 1)) :
          /\ LoopPoint(EdgeRange(jr.fs, 1), n)[2] = jr.fs.dsy.tnods - 1
          /\ LoopPoint(EdgeRange(jr.fs, 1), n)[3] = jr.fs.dsz.tnods - 1
          /\ jr.fs.dsz.tcels = 1
          /\ FGt(jr.svYZEdge[n - 1].DII2, FInt(0))

---------------------------------------------------------------------------
(* The per-iteration state machine: CopySolution, GetEffStrainRate,
   GetResidual, CopyResidual, with GetVorticity between any two of them *)

\* the iterations of one run
MaxIters == 2

\* the JacRes of the iteration machine: pos is the step the iteration
\* expects next, last the routine that wrote the edge arrays last, vorts the
\* calls of JacResGetVorticity in the current iteration, read the edge
\* arrays as JacResGetResidual found them and readLast their writer; failed
\* tells that an evaluation returned an error; fresh is a newly created
\* JacRes taken through the same evaluation with no error, and after
\* JacResGetResidual its four residual arrays
IterJacRes(f, F) ==
    ResidualJacRes(f, F, "uniform2", FInt(1))
    @@ [pos |-> "copy", iters |-> 0, vorts |-> 0, read |-> <<>>,
        readLast |-> "none", failed |-> FALSE, fresh |-> <<>>]

\* the four residual arrays of j
ResidualOf(j) == <<j.gfx, j.gfy, j.gfz, j.gc>>

\* the constitutive calls that may fail in the iteration machine: none (0),
\* the second call of the first center, the first call of the first XY edge
\* and the last call
IterFailPoints(f) ==
    {0, 2, 3 * CornerCount(CenterRange(f)) + 1, CallCount(f)}

InitIter ==
    /\ \E f \in StrainFDSTAG : \E F \in ResidualFields : jr = IterJacRes(f, F)
    /\ AxisIdle /\ SegIdle /\ GridIdle /\ CourantIdle

\* JacResCopySol(jr, x): the velocities of solution F in the local vectors
IterCopySol(F) ==
    /\ jr.pos = "copy"
    /\ jr.iters < MaxIters
    /\ jr' = [jr EXCEPT !.field = F,
                        !.lvx = LocalVelocity(jr.fs, F, 1, XFaceRange(jr.fs)),
                        !.lvy = LocalVelocity(jr.fs, F, 2, YFaceRange(jr.fs)),
                        !.lvz = LocalVelocity(jr.fs, F, 3, ZFaceRange(jr.fs)),
                        !.pos = "strain"]
    /\ UNCHANGED <<axisVars, segVars, gridVars, courantVars>>

\* JacResGetEffStrainRate(jr)
IterGetEffStrainRate ==
    /\ jr.pos = "strain"
    /\ jr' = [JacResGetEffStrainRate(jr)
                 EXCEPT !.strained = TRUE,
                        !.last = "strain",
                        !.pos = "res",
                        !.fresh = JacResGetEffStrainRate(
                                      ResidualJacRes(jr.fs, jr.field,
                                                     "uniform2", FInt(1)))]
    /\ UNCHANGED <<axisVars, segVars, gridVars, courantVars>>

\* JacResGetResidual(jr), the constitutive call number failAt failing (none
\* for 0); after an error the caller starts the evaluation again
IterGetResidual(failAt) ==
    /\ jr.pos = "res"
    /\ jr' = [JacResGetResidual([jr EXCEPT !.failAt = failAt])
                 EXCEPT !.read = <<jr.ldxy, jr.ldxz, jr.ldyz>>,
                        !.readLast = jr.last,
                        !.pos = IF failAt = 0 THEN "copyres" ELSE "copy",
                        !.iters = IF failAt = 0 THEN @ ELSE @ + 1,
                        !.vorts = IF failAt = 0 THEN @ ELSE 0,
                        !.failed = @ \/ failAt # 0,
                        !.fresh = ResidualOf(JacResGetResidual(@))]
    /\ UNCHANGED <<axisVars, segVars, gridVars, courantVars>>

\* JacResCopyRes(jr, f): the residual leaves jr as it is
IterCopyRes ==
    /\ jr.pos = "copyres"
    /\ jr' = [jr EXCEPT !.pos = "copy", !.iters = @ + 1, !.vorts = 0]
    /\ UNCHANGED <<axisVars, segVars, gridVars, courantVars>>

\* JacResGetVorticity(jr), at any position of the iteration
IterGetVorticity ==
    /\ jr.last # "vort"
    /\ jr.iters < MaxIters
    /\ jr' = [JacResGetVorticity(jr) EXCEPT !.last = "vort", !.vorts = @ + 1]
    /\ UNCHANGED <<axisVars, segVars, gridVars, courantVars>>

NextIter ==
    \/ \E F \in ResidualFields : IterCopySol(F)
    \/ IterGetEffStrainRate
    \/ \E failAt \in IterFailPoints(jr.fs) : IterGetResidual(failAt)
    \/ IterCopyRes
    \/ IterGetVorticity

SpecIter == InitIter /\ [][NextIter]_vars

\* the effective shear strain rates of the solution in the local vectors,
\* at the edges normal to axis r
RatesOfSolution(r) ==
    EffectiveEdge(StrainVariables(jr)[EdgeName(r)], EdgeRange(jr.fs, r),
                  jr[EdgeRateName(r)])

\* the edge arrays JacResGetResidual read held the effective shear strain
\* rates of the current solution
ReadStrainRates ==
    \A r \in 1..3 : \A pt \in Owned(EdgeRange(jr.fs, r)) :
        FEq(jr.read[4 - r][pt], RatesOfSolution(r)[pt])

\* C24 as stated: in every call sequence of the iteration with
\* JacResGetVorticity interleaved at any position, the edge arrays ldxy, ldxz,
\* ldyz hold the effective shear strain rates of the current solution when
\* JacResGetResidual reads them.
C24_EdgeArraysHoldStrainRates == jr.pos = "copyres" => ReadStrainRates

\* C24 amended: the edge arrays hold the effective shear strain rates of the
\* current solution when JacResGetResidual reads them in every call sequence
\* in which no JacResGetVorticity comes between JacResGetEffStrainRate and
\* JacResGetResidual, wherever else JacResGetVorticity is called.
C24_StrainRatesUnlessVorticityBetween ==
    (jr.pos = "copyres" /\ jr.readLast = "strain") => ReadStrainRates

\* C24 witness: an iteration with JacResGetVorticity called before
\* JacResGetEffStrainRate, the residual read a shear strain rate that is not 0
C24_Witness ==
    /\ jr.pos = "copyres"
    /\ jr.readLast = "strain"
    /\ jr.vorts > 0
    /\ ReadStrainRates
    /\ \E pt \in DOMAIN jr.read[1] : ~FEq(jr.read[1][pt], FInt(0))


---------------------------------------------------------------------------
(* The two-point constraints on one process of a process grid *)

\* the node counts along y and z: one cell along both, or two cells along
\* one of them
TpcSections == {<<2, 2>>, <<3, 2>>, <<2, 3>>}

\* the node and process counts along x: 2 or 3 cells on one process, 4 cells
\* on two processes of 2 cells each (the cell a process has as a
\* process-boundary ghost is then not a cell at the domain boundary)
TpcSpans == {<<3, 1>>, <<4, 1>>, <<5, 2>>}

\* the grids of the constraint machine
TpcGrids ==
    {[Nx |-> xp[1], Ny |-> yz[1], Nz |-> yz[2], Px |-> xp[2], Py |-> 1,
      Pz |-> 1, idxmod |-> "IDXCOUPLED"] :
        xp \in TpcSpans, yz \in TpcSections}

\* the first entry of the solution vectors copied
TpcBases == {10, 40}

\* the value the owner of point pt holds, for a point of another process
NeighbourValue(pt) == 1000 + pt[1] + 10 * pt[2] + 100 * pt[3]

\* GLOBAL_TO_LOCAL(da, g, l) on one process of grid G: the owned points take
\* the entries of the global vector, the ghost points inside the domain the
\* values of their owners, the ghost points outside the domain keep theirs
GLOBAL_TO_LOCAL_On(c, da, G, g, l) ==
    [pt \in DOMAIN l |->
        IF pt \in Owned(c) THEN g[START_STD_LOOP(c, pt)]
        ELSE IF InDomain(da, G, pt) THEN NeighbourValue(pt)
        ELSE l[pt]]

\* lines 1281-1284 on global rank j.g
FillLocalOn(j) ==
    [j EXCEPT
        !.lvx = GLOBAL_TO_LOCAL_On(DMDAGetCorners(DA_X(j.G), j.G, j.g),
                                   DA_X(j.G), j.G, j.gvx, @),
        !.lvy = GLOBAL_TO_LOCAL_On(DMDAGetCorners(DA_Y(j.G), j.G, j.g),
                                   DA_Y(j.G), j.G, j.gvy, @),
        !.lvz = GLOBAL_TO_LOCAL_On(DMDAGetCorners(DA_Z(j.G), j.G, j.g),
                                   DA_Z(j.G), j.G, j.gvz, @),
        !.lp  = GLOBAL_TO_LOCAL_On(DMDAGetCorners(DA_CEN(j.G), j.G, j.g),
                                   DA_CEN(j.G), j.G, j.gp, @)]

\* JacResCopySol(jr, x) on global rank j.g
JacResCopySolOn(j, x) == TwoPoint(FillLocalOn(SplitSol(j, ConstrainedSol(x, j.bc))))

\* the boundary-condition array of the points c of distributed array da:
\* with values, the boundary value 1 at the ghost points below the domain
TpcBCArray(c, da, G, values) ==
    [pt \in {q \in Ghosted(c) : /\ values
                                /\ ~InDomain(da, G, q)
                                /\ (q[1] < 0 \/ q[2] < 0 \/ q[3] < 0)} |-> 1]

TpcBCCtx(G, g, values) ==
    [vSPC |-> <<>>, pSPC |-> <<>>,
     bcvx |-> TpcBCArray(DMDAGetCorners(DA_X(G), G, g), DA_X(G), G, values),
     bcvy |-> TpcBCArray(DMDAGetCorners(DA_Y(G), G, g), DA_Y(G), G, values),
     bcvz |-> TpcBCArray(DMDAGetCorners(DA_Z(G), G, g), DA_Z(G), G, values),
     bcp  |-> TpcBCArray(DMDAGetCorners(DA_CEN(G), G, g), DA_CEN(G), G, values)]

\* the unknowns of the ranks below g, as their MPI_Scan contributions
LowerContributions(G, g) ==
    [q \in 0..(g - 1) |-> NUM(LocalVelocities(G, q), LocalPressures(G, q))]

\* the JacRes of global rank g of grid G; pre keeps the four local vectors as
\* the exchange of the last JacResCopySol delivered them
TpcJacRes(G, g, values) ==
    [x \in {"lvx"} |-> NewLocalVector(DMDAGetCorners(DA_X(G), G, g))]
    @@ [x \in {"lvy"} |-> NewLocalVector(DMDAGetCorners(DA_Y(G), G, g))]
    @@ [x \in {"lvz"} |-> NewLocalVector(DMDAGetCorners(DA_Z(G), G, g))]
    @@ [x \in {"lp"} |-> NewLocalVector(DMDAGetCorners(DA_CEN(G), G, g))]
    @@ [x \in {"bc"} |-> TpcBCCtx(G, g, values)]
    @@ JacResCreate(G, FDSTAGCreate(G, g, RankX(G, g), RankY(G, g), RankZ(G, g),
                                    LowerContributions(G, g)),
                    TpcBCCtx(G, g, values))
    @@ [g |-> g, pre |-> <<>>]

\* the four local solution vectors of j
LocalVectors(j) == [lvx |-> j.lvx, lvy |-> j.lvy, lvz |-> j.lvz, lp |-> j.lp]

InitTpc ==
    /\ \E G \in TpcGrids : \E g \in Ranks(G) : \E values \in BOOLEAN :
           jr = TpcJacRes(G, g, values)
    /\ AxisIdle /\ SegIdle /\ GridIdle /\ CourantIdle

\* JacResCopySol(jr, x) on the process, for a solution vector x of distinct
\* entries starting at base
TpcCopySol(base) ==
    /\ jr' = [JacResCopySolOn(jr, Ramp(jr.fs.dof.ln, base))
                 EXCEPT !.sol = TRUE,
                        !.pre = LocalVectors(FillLocalOn(SplitSol(jr,
                                    ConstrainedSol(Ramp(jr.fs.dof.ln, base),
                                                   jr.bc))))]
    /\ UNCHANGED <<axisVars, segVars, gridVars, courantVars>>

NextTpc == \E base \in TpcBases : TpcCopySol(base)

SpecTpc == InitTpc /\ [][NextTpc]_vars

\* the four local vectors with their distributed arrays and the loop ranges
\* of the constraint pass
TpcNames == <<"lvx", "lvy", "lvz", "lp">>

TpcDA(v) == <<DA_X(jr.G), DA_Y(jr.G), DA_Z(jr.G), DA_CEN(jr.G)>>[v]

TpcAxes(v) == <<{2, 3}, {1, 3}, {1, 2}, {1, 2, 3}>>[v]

\* the sides of axis ax the point pt adjoins: -1 the lower boundary, 1 the
\* upper one
BoundarySides(pt, ax, mc) ==
    {sd \in {-1, 1} : (sd = -1 /\ pt[ax] = 0) \/ (sd = 1 /\ pt[ax] = mc[ax])}

\* the steps from the point pt of the v-th local vector to the ghost
\* locations diagonal to it across two or three of the boundaries it adjoins
DiagonalSteps(v, pt, mc) ==
    {sh \in [1..3 -> {-1, 0, 1}] :
        /\ Cardinality({ax \in 1..3 : sh[ax] # 0}) >= 2
        /\ \A ax \in 1..3 :
              sh[ax] # 0 => (ax \in TpcAxes(v) /\ sh[ax] \in BoundarySides(pt, ax, mc))}

\* the value of the edge/corner rule at the location sh away from pt
EdgeCornerValue(a, pt, sh) ==
    a[Shift(pt, 1, sh[1])] + a[Shift(pt, 2, sh[2])] + a[Shift(pt, 3, sh[3])]
    - 2 * a[pt]

\* C29: once JacResCopySol has run, for every face or center point that
\* adjoins the domain boundary in two or three directions, every ghost
\* location diagonal to it across those boundaries holds the value of the
\* edge/corner rule, on every grid, an axis with a single cell included.
C29_EveryDiagonalGhostAssigned ==
    jr.sol =>
        \A v \in 1..4 : \A pt \in DOMAIN jr[TpcNames[v]] :
            InDomain(TpcDA(v), jr.G, pt) =>
                \A sh \in DiagonalSteps(v, pt, MaxCellIndex(jr.fs)) :
                    jr[TpcNames[v]][<<pt[1] + sh[1], pt[2] + sh[2], pt[3] + sh[3]>>]
                        = EdgeCornerValue(jr[TpcNames[v]], pt, sh)


---------------------------------------------------------------------------
(* JacResGetResidual on the processes of a run: the four loops with their
   constitutive calls, then the three local-to-global exchanges *)

\* the processes, in a row along x
AsmProcs == 0..2

AsmNeighbours(p) == {q \in AsmProcs : q = p - 1 \/ q = p + 1}

\* the four loops, in program order
AsmLoops == <<"Centers", "XYEdges", "XZEdges", "YZEdges">>

\* lines 1199-1201: the vectors assembled, in program order
AsmVectors == <<"lfx", "lfy", "lfz">>

\* the position of a process: in loop n (1..4), at the begin or the end of
\* exchange n, or back in the caller
AsmStart == [at |-> "loop", n |-> 1, ierr |-> 0]

InitAsm ==
    /\ jr = [proc |-> [p \in AsmProcs |-> AsmStart],
             chan |-> [p \in AsmProcs |-> [q \in AsmNeighbours(p) |-> <<>>]]]
    /\ AxisIdle /\ SegIdle /\ GridIdle /\ CourantIdle

\* a loop of JacResGetResidual on process p: every constitutive call returns
\* 0 and the loop ends, or one returns code and CHKERRQ returns it
AsmLoop(p, code) ==
    /\ jr.proc[p].at = "loop"
    /\ jr' = [jr EXCEPT !.proc[p] =
                 IF code # 0 THEN [at |-> "returned", n |-> @.n, ierr |-> code]
                 ELSE IF @.n < Len(AsmLoops) THEN [@ EXCEPT !.n = @ + 1]
                 ELSE [at |-> "begin", n |-> 1, ierr |-> 0]]
    /\ UNCHANGED <<axisVars, segVars, gridVars, courantVars>>

\* the first half of LOCAL_TO_GLOBAL: the contributions to the faces of the
\* neighbours go out
AsmBegin(p) ==
    /\ jr.proc[p].at = "begin"
    /\ jr' = [jr EXCEPT !.proc[p].at = "end",
                        !.chan = [q \in AsmProcs |->
                                     IF p \in AsmNeighbours(q)
                                     THEN [@[q] EXCEPT ![p] =
                                              Append(@, AsmVectors[jr.proc[p].n])]
                                     ELSE @[q]]]
    /\ UNCHANGED <<axisVars, segVars, gridVars, courantVars>>

\* the second half: blocked until the contributions of every neighbour have
\* come; after the third exchange the routine returns 0
AsmEnd(p) ==
    /\ jr.proc[p].at = "end"
    /\ \A q \in AsmNeighbours(p) : jr.chan[p][q] # <<>>
    /\ jr' = [jr EXCEPT !.proc[p] =
                            IF @.n < Len(AsmVectors)
                            THEN [at |-> "begin", n |-> @.n + 1, ierr |-> 0]
                            ELSE [at |-> "returned", n |-> @.n, ierr |-> 0],
                        !.chan[p] = [q \in AsmNeighbours(p) |-> Tail(@[q])]]
    /\ UNCHANGED <<axisVars, segVars, gridVars, courantVars>>

NextAsm ==
    \E p \in AsmProcs :
        \/ \E code \in {0, 73} : AsmLoop(p, code)
        \/ AsmBegin(p)
        \/ AsmEnd(p)

SpecAsm == InitAsm /\ [][NextAsm]_vars

\* every process runs as long as it can take a step
SpecAsmFair ==
    /\ SpecAsm
    /\ \A p \in AsmProcs :
          WF_vars(\/ AsmBegin(p)
                  \/ AsmEnd(p)
                  \/ \E code \in {0, 73} : AsmLoop(p, code))

\* C26: for every combination of per-process outcomes of the constitutive
\* calls, every process eventually returns from JacResGetResidual.
C26_EveryProcessReturns ==
    <>(\A p \in AsmProcs : jr.proc[p].at = "returned")


---------------------------------------------------------------------------
(* Claim on repeated evaluations: C27 *)

\* C27: an evaluation CopySolution -> GetEffStrainRate -> GetResidual that
\* returns 0 yields the residual of a first evaluation of the same solution,
\* whatever evaluations came before it, failed ones included.
C27_EvaluationLeavesNothing ==
    (jr.pos = "copyres" /\ jr.readLast = "strain") =>
        \A v \in 1..4 : \A pt \in DOMAIN ResidualOf(jr)[v] :
            FEq(ResidualOf(jr)[v][pt], jr.fresh[v][pt])

\* C27 witness: an evaluation that returned 0 after one that returned an
\* error, with a momentum residual that is not 0
C27_Witness ==
    /\ jr.pos = "copyres"
    /\ jr.readLast = "strain"
    /\ jr.failed
    /\ jr.ierr = 0
    /\ \E pt \in DOMAIN jr.gfx : ~FEq(jr.gfx[pt], FInt(0))


---------------------------------------------------------------------------
(* The assembly of the momentum residual over a process partition: which
   cell and which edge adds to which face, on which process *)

\* the grids: 2 or 3 cells along x and along y, 1 cell along z, on one or
\* two processes along x and along y
PartGrids ==
    {[Nx |-> nx, Ny |-> ny, Nz |-> 2, Px |-> px, Py |-> py, Pz |-> 1,
      idxmod |-> "IDXCOUPLED"] :
        nx \in {3, 4}, ny \in {3, 4}, px \in {1, 2}, py \in {1, 2}}

\* the FDSTAG of global rank g of grid G
PartFDSTAG(G, g) ==
    FDSTAGCreate(G, g, RankX(G, g), RankY(G, g), RankZ(G, g),
                 LowerContributions(G, g))

FaceRange(f, comp) == <<XFaceRange(f), YFaceRange(f), ZFaceRange(f)>>[comp]

FaceDA(G, comp) == <<DA_X(G), DA_Y(G), DA_Z(G)>>[comp]

\* the cell at pt adding to one face only
CellScatter_LowerOnly(pt) ==
    {[comp |-> ax, at |-> pt, src |-> <<"cell", 0, pt>>] : ax \in 1..3}

\* lines 858-860: the cell at pt adds to its two faces along every axis
CellScatter(pt) ==
    {[comp |-> ax, at |-> pt, src |-> <<"cell", 0, pt>>] : ax \in 1..3}
    \cup {[comp |-> ax, at |-> Shift(pt, ax, 1), src |-> <<"cell", 0, pt>>] :
             ax \in 1..3}

\* lines 970-971, 1072-1073, 1174-1175: the edge at pt normal to axis r adds
\* to two faces of each of the two components of its plane
EdgeScatter(r, pt) ==
    {[comp |-> EdgeA(r), at |-> Shift(pt, EdgeB(r), -1), src |-> <<"edge", r, pt>>],
     [comp |-> EdgeA(r), at |-> pt, src |-> <<"edge", r, pt>>],
     [comp |-> EdgeB(r), at |-> Shift(pt, EdgeA(r), -1), src |-> <<"edge", r, pt>>],
     [comp |-> EdgeB(r), at |-> pt, src |-> <<"edge", r, pt>>]}

\* the stores of the four loops of JacResGetResidual on a process with
\* FDSTAG f
LoopStores(f) ==
    UNION {CellScatter(pt) : pt \in Owned(CenterRange(f))}
    \cup UNION {UNION {EdgeScatter(r, pt) : pt \in Owned(EdgeRange(f, r))} :
                   r \in 1..3}

\* the processes of the partition before the evaluation
InitPart ==
    /\ \E G \in PartGrids :
           jr = [G |-> G,
                 proc |-> [g \in Ranks(G) |->
                              [pc |-> "start", fs |-> PartFDSTAG(G, g),
                               lf |-> {}, gc |-> {}, gf |-> {}, oob |-> {}]]]
    /\ AxisIdle /\ SegIdle /\ GridIdle /\ CourantIdle

\* the loops of JacResGetResidual on rank g: lf holds the stores into the
\* local vectors, gc the centers whose continuity residual is assigned, oob
\* the stores that fall outside the local vector
PartLoops(g) ==
    /\ jr.proc[g].pc = "start"
    /\ jr' = [jr EXCEPT !.proc[g] =
                 [@ EXCEPT !.pc = "looped",
                           !.lf = LoopStores(jr.proc[g].fs),
                           !.gc = Owned(CenterRange(jr.proc[g].fs)),
                           !.oob = {st \in LoopStores(jr.proc[g].fs) :
                                       st.at \notin Ghosted(FaceRange(jr.proc[g].fs,
                                                                      st.comp))}]]
    /\ UNCHANGED <<axisVars, segVars, gridVars, courantVars>>

\* the three LOCAL_TO_GLOBAL on rank g, every process having finished its
\* loops: an owned face takes what every process stored at it, as pairs of
\* the store and the rank it comes from
PartAssemble(g) ==
    /\ jr.proc[g].pc = "looped"
    /\ \A q \in Ranks(jr.G) : jr.proc[q].pc # "start"
    /\ jr' = [jr EXCEPT !.proc[g] =
                 [@ EXCEPT !.pc = "done",
                           !.gf = UNION {{<<st, q>> : st \in
                                            {t \in jr.proc[q].lf :
                                                t.at \in Owned(FaceRange(jr.proc[g].fs,
                                                                         t.comp))}} :
                                         q \in Ranks(jr.G)}]]
    /\ UNCHANGED <<axisVars, segVars, gridVars, courantVars>>

NextPart ==
    \E g \in Ranks(jr.G) :
        \/ PartLoops(g)
        \/ PartAssemble(g)

SpecPart == InitPart /\ [][NextPart]_vars

\* the cells of the domain next to the face F of component comp, and the
\* edges next to it, as the sources of their stores
AdjacentCells(comp, F) ==
    {<<"cell", 0, c>> : c \in {q \in {F, Shift(F, comp, -1)} :
                                  InDomain(DA_CEN(jr.G), jr.G, q)}}

AdjacentEdges(comp, F) ==
    UNION {{<<"edge", 6 - comp - b, e>> : e \in {F, Shift(F, b, 1)}} :
              b \in (1..3) \ {comp}}

\* the ranks from which a store of source src has come into face F of
\* component comp on rank g
StoredFrom(g, comp, F, src) ==
    {q \in Ranks(jr.G) : <<[comp |-> comp, at |-> F, src |-> src], q>> \in jr.proc[g].gf}

\* C28: once a process has assembled its global momentum residual, each face
\* it owns holds exactly one contribution of each adjacent cell and of each
\* adjacent edge and nothing else, on every partition as on a single
\* process; the continuity residual is assigned at the centers the process
\* owns, every center of the domain on one process; no store falls outside a
\* local vector.
C28_PartitionIndependentAssembly ==
    \A g \in Ranks(jr.G) :
        /\ jr.proc[g].oob = {}
        /\ \A c \in jr.proc[g].gc :
              \A q \in Ranks(jr.G) : c \in jr.proc[q].gc => q = g
        /\ jr.proc[g].pc = "done" =>
              /\ \A comp \in 1..3 : \A F \in Owned(FaceRange(jr.proc[g].fs, comp)) :
                    /\ \A src \in AdjacentCells(comp, F) \cup AdjacentEdges(comp, F) :
                          Cardinality(StoredFrom(g, comp, F, src)) = 1
                    /\ \A e \in jr.proc[g].gf :
                          (e[1].comp = comp /\ e[1].at = F) =>
                              e[1].src \in AdjacentCells(comp, F)
                                           \cup AdjacentEdges(comp, F)
              /\ \A c \in Owned(DMDAGetCorners(DA_CEN(jr.G), jr.G, g)) :
                    c \in jr.proc[g].gc

\* C28 witness: on four processes, rank 0 has assembled a face that took the
\* contribution of a cell of its own and those of edges of ranks 1 and 2
C28_Witness ==
    /\ Cardinality(Ranks(jr.G)) = 4
    /\ jr.proc[0].pc = "done"
    /\ \E F \in Owned(FaceRange(jr.proc[0].fs, 1)) :
          /\ \E src \in AdjacentCells(1, F) : StoredFrom(0, 1, F, src) = {0}
          /\ \E src \in AdjacentEdges(1, F) : StoredFrom(0, 1, F, src) = {2}
    /\ \E F \in Owned(FaceRange(jr.proc[0].fs, 2)) :
          \E src \in AdjacentEdges(2, F) : StoredFrom(0, 2, F, src) = {1}


---------------------------------------------------------------------------
(* Claim on the coordinates of a segment: C30 *)

\* the coordinates stored for nodes k and k+1 of segment iseg
NodePairs(iseg) ==
    {pr \in seg.crd \X seg.crd :
        pr[1].iseg = iseg /\ pr[2].iseg = iseg /\ pr[2].k = pr[1].k + 1}

\* C30: for every segment with M >= 1 cells, xstart < xclose and bias > 0,
\* a segment of a single cell with a bias other than 1 included, the
\* coordinates MeshSeg1DGenCoord stores are numbers, start at xstart and
\* grow strictly from node to node.
C30_CoordinatesIncrease ==
    /\ \A g \in seg.crd :
          /\ IsFinite(g.x)
          /\ g.k = 0 => FEq(g.x, seg.m.xstart[g.iseg])
    /\ \A iseg \in 0..(seg.m.nsegs - 1) :
          \A pr \in NodePairs(iseg) : FLt(pr[1].x, pr[2].x)


===========================================================================
